---------------------------- MODULE Spec2Model ----------------------------
(***************************************************************************)
(* A model of the AutoScout24 scraper (Rovis91/autoscout-scraper).         *)
(*                                                                         *)
(*   Spec         AutoscoutScraper.scrape_all_listings: the index-page     *)
(*                collection loop and the detail-scraping loop             *)
(*   SpecExtract  one detail page taken through the extraction cascade,    *)
(*                the validation gate, the scraper's formatter and the     *)
(*                DataProcessor, stage by stage                            *)
(*   SpecMatch    DatabaseManager._matches_user_preferences on one         *)
(*                (listing, user, zipcode set) triple                      *)
(*                                                                         *)
(* Python values.  An optional value is a tuple: None is << >> and a       *)
(* value v is << v >>, so that None never has to be compared with a string *)
(* or a number.  A dict is a function whose domain is the set of keys      *)
(* present.  A JSON number of a page is kept in hundredths (15000.50 is    *)
(* 1500050), which makes int(float(x)) the truncation it is.               *)
(***************************************************************************)
EXTENDS Integers, Sequences, FiniteSets, TLC

(***************************************************************************)
(* Bounds of the model                                                     *)
(***************************************************************************)
\* URLs of the site are 0 .. NumUrls-1.  URL 0 has no id segment (none of the
\* three id patterns of _extract_json_ld_data matches it).
NumUrls == 10
\* URLs 1 .. NumKnown are the ones the database already holds.
NumKnown == 7
\* The page cap self.max_pages = SCRAPING_CONFIG['max_pages'] (20 in
\* enums.py:75); the model runs the loop with a smaller configured cap.
max_pages == 5
\* The site offers at most this many new URLs over the pages of one run.
MaxCandidates == 3
\* JSON-LD scripts per detail page.
MaxScripts == 2

(***************************************************************************)
(* Program constants                                                       *)
(***************************************************************************)
\* for attempt in range(3)
RetryAttempts == 3
\* existing_count > len(car_urls) * 0.7, as the exact ratio 7/10.  The float
\* product agrees with the exact one for every page of fewer than 90 URLs.
ThresholdNum == 7
ThresholdDen == 10
\* if consecutive_existing_pages >= 2
StopAfter == 2
\* meaningful_data_count >= 2
MinMeaningful == 2
\* price_min * 100, price_max * 100
CentsPerEuro == 100
\* user.get('price_max') or 1000000, user.get('mileage_max') or 200000
DefaultPriceMax == 1000000
DefaultMileageMax == 200000

(***************************************************************************)
(* Python values                                                           *)
(***************************************************************************)
None == << >>
Some(v) == << v >>
\* bool(x) of an optional string / an optional number
TruthyS(x) == x # None /\ x # Some("")
TruthyN(x) == x # None /\ x # Some(0)
\* d.get(k)
Get(d, k) == IF k \in DOMAIN d THEN d[k] ELSE None
\* d.update(e)
Update(d, e) ==
  [k \in DOMAIN d \cup DOMAIN e |-> IF k \in DOMAIN e THEN e[k] ELSE d[k]]
EmptyDict == [k \in {} |-> None]
\* {k: v}
Entry(k, v) == [x \in {k} |-> v]
\* int(float(x)) of a JSON number kept in hundredths: truncation toward zero
IntFloat(c) == IF c >= 0 THEN c \div 100 ELSE -((-c) \div 100)

Range(s) == {s[i] : i \in 1..Len(s)}
\* how often x occurs in the list s
Count(s, x) == Cardinality({i \in 1..Len(s) : s[i] = x})

(***************************************************************************)
(* Detail pages                                                            *)
(*                                                                         *)
(* A detail page is a record                                               *)
(*   ld     the JSON-LD scripts of the page, in document order; a script   *)
(*          is [type, brand, model, description, price, offers, fuelType], *)
(*          an absent key being None; fuelType stands for a vehicleEngine  *)
(*          list of one engine, offers for a dict or a list of offers      *)
(*   state  listing.listing of window.__INITIAL_STATE__, or None:          *)
(*          [description, model, estimated], estimated being the maximum   *)
(*          of the evaluation range of category 1                          *)
(*   body   what the text of the page outside the scripts holds:           *)
(*          description   the result of the fragment patterns of           *)
(*                        _extract_description_from_html ("" when none)    *)
(*          fuel_word     the fuel keyword found in the text               *)
(*          transmission  the transmission word found in the text          *)
(* Left out of a page: manufacturer, year, mileage, transmission keys of a *)
(* script, contact, image and name keys, the listingDetails object,        *)
(* location, malformed scripts, JSON null and non-numeric price strings.   *)
(* Every description of a script is shorter than 50 characters, so the     *)
(* JSON patterns of _extract_description_from_html do not return it.       *)
(***************************************************************************)
\* Prices of the model's pages, as JSON numbers: 15000.00 and 12999.50
PagePrice == 1500000
OfferPrice == 1299950
\* The evaluation-range maximum of the model's pages: 16400.00
PageEstimate == 1640000

\* the text a JSON string of the document decodes to, after _clean_description
\* replaced the break tags, removed the other tags and stripped it
CleanText(s) ==
  CASE s = "One owner<br />" -> "One owner"
    [] s = " " -> ""
    [] OTHER -> s

\* the group the pattern "description":\s*"([^"]*)" captures on the raw text
\* of the script, with the escaped break tag replaced by a newline
RawText(s) ==
  CASE s = "One owner<br />" -> "One owner\n"
    [] OTHER -> s

\* str(value).strip().title()
StripTitle(s) ==
  CASE s = " " -> ""
    [] s = "bmw" -> "Bmw"
    [] s = "BMW" -> "Bmw"
    [] s = "audi" -> "Audi"
    [] OTHER -> s

\* The characters of a string of the model, one by one
Chars(s) ==
  CASE s = "essence" -> <<"e", "s", "s", "e", "n", "c", "e">>
    [] s = "gasoline" -> <<"g", "a", "s", "o", "l", "i", "n", "e">>
    [] s = "petrol" -> <<"p", "e", "t", "r", "o", "l">>
    [] s = "benzine" -> <<"b", "e", "n", "z", "i", "n", "e">>
    [] s = "b" -> <<"b">>
    [] s = "diesel" -> <<"d", "i", "e", "s", "e", "l">>
    [] s = "d" -> <<"d">>
    [] s = "electric" -> <<"e", "l", "e", "c", "t", "r", "i", "c">>
    [] s = "electrique" -> <<"e", "l", "e", "c", "t", "r", "i", "q", "u", "e">>
    [] s = "elektro" -> <<"e", "l", "e", "k", "t", "r", "o">>
    [] s = "e" -> <<"e">>
    [] s = "hybrid" -> <<"h", "y", "b", "r", "i", "d">>
    [] s = "hybride" -> <<"h", "y", "b", "r", "i", "d", "e">>
    [] s = "h" -> <<"h">>
    [] s = "lpg" -> <<"l", "p", "g">>
    [] s = "gpl" -> <<"g", "p", "l">>
    [] s = "l" -> <<"l">>
    [] s = "cng" -> <<"c", "n", "g">>
    [] s = "gnc" -> <<"g", "n", "c">>
    [] s = "c" -> <<"c">>
    [] s = "gas" -> <<"g", "a", "s">>
    [] s = "Gasoline" -> <<"G", "a", "s", "o", "l", "i", "n", "e">>
    [] s = "Diesel" -> <<"D", "i", "e", "s", "e", "l">>
    [] s = "Electric" -> <<"E", "l", "e", "c", "t", "r", "i", "c">>
    [] s = "Hybrid" -> <<"H", "y", "b", "r", "i", "d">>
    [] s = "Other" -> <<"O", "t", "h", "e", "r">>
    [] s = "Unknown" -> <<"U", "n", "k", "n", "o", "w", "n">>
    [] s = "Essence" -> <<"E", "s", "s", "e", "n", "c", "e">>
    [] s = " Diesel " -> <<" ", "D", "i", "e", "s", "e", "l", " ">>
    [] s = "HYBRID" -> <<"H", "Y", "B", "R", "I", "D">>
    [] s = "Hybride" -> <<"H", "y", "b", "r", "i", "d", "e">>
    [] s = "hydrogen" -> <<"h", "y", "d", "r", "o", "g", "e", "n">>
    [] s = "xyz" -> <<"x", "y", "z">>
    [] s = "" -> <<>>
    [] s = " " -> <<" ">>
    [] s = "manual" -> <<"m", "a", "n", "u", "a", "l">>
    [] s = "manuelle" -> <<"m", "a", "n", "u", "e", "l", "l", "e">>
    [] s = "automatic" -> <<"a", "u", "t", "o", "m", "a", "t", "i", "c">>
    [] s = "automatique" -> <<"a", "u", "t", "o", "m", "a", "t", "i", "q", "u", "e">>
    [] s = "semi-automatic" -> <<"s", "e", "m", "i", "-", "a", "u", "t", "o", "m", "a", "t", "i", "c">>
    [] s = "semi-automatique" -> <<"s", "e", "m", "i", "-", "a", "u", "t", "o", "m", "a", "t", "i", "q", "u", "e">>
    [] s = "semi" -> <<"s", "e", "m", "i">>
    [] s = "Manual" -> <<"M", "a", "n", "u", "a", "l">>
    [] s = "Automatic" -> <<"A", "u", "t", "o", "m", "a", "t", "i", "c">>
    [] s = "Semi-automatic" -> <<"S", "e", "m", "i", "-", "a", "u", "t", "o", "m", "a", "t", "i", "c">>
    [] s = "Automatique" -> <<"A", "u", "t", "o", "m", "a", "t", "i", "q", "u", "e">>
    [] s = " Manual " -> <<" ", "M", "a", "n", "u", "a", "l", " ">>
    [] s = "SEMI-AUTOMATIC" -> <<"S", "E", "M", "I", "-", "A", "U", "T", "O", "M", "A", "T", "I", "C">>
    [] s = "cvt" -> <<"c", "v", "t">>
    [] s = "boite manuelle" -> <<"b", "o", "i", "t", "e", " ", "m", "a", "n", "u", "e", "l", "l", "e">>
    [] s = "boite automatique" -> <<"b", "o", "i", "t", "e", " ", "a", "u", "t", "o", "m", "a", "t", "i", "q", "u", "e">>

\* str.lower(), character by character
LowerChar(c) ==
  CASE c = "A" -> "a"
    [] c = "B" -> "b"
    [] c = "C" -> "c"
    [] c = "D" -> "d"
    [] c = "E" -> "e"
    [] c = "F" -> "f"
    [] c = "G" -> "g"
    [] c = "H" -> "h"
    [] c = "I" -> "i"
    [] c = "J" -> "j"
    [] c = "K" -> "k"
    [] c = "L" -> "l"
    [] c = "M" -> "m"
    [] c = "N" -> "n"
    [] c = "O" -> "o"
    [] c = "P" -> "p"
    [] c = "Q" -> "q"
    [] c = "R" -> "r"
    [] c = "S" -> "s"
    [] c = "T" -> "t"
    [] c = "U" -> "u"
    [] c = "V" -> "v"
    [] c = "W" -> "w"
    [] c = "X" -> "x"
    [] c = "Y" -> "y"
    [] c = "Z" -> "z"
    [] OTHER -> c

Lower(cs) == [i \in DOMAIN cs |-> LowerChar(cs[i])]

\* str.strip(): the blanks at both ends removed
RECURSIVE Strip(_)
Strip(cs) ==
  IF cs = <<>> THEN cs
  ELSE IF Head(cs) = " " THEN Strip(Tail(cs))
  ELSE IF cs[Len(cs)] = " " THEN Strip(SubSeq(cs, 1, Len(cs) - 1))
  ELSE cs

\* str(value).strip().lower()
StripLower(s) == Strip(Lower(Chars(s)))

\* k in value, on strings: k is a substring of value
Contains(k, value) ==
  \E i \in 0 .. (Len(value) - Len(k)) : SubSeq(value, i + 1, i + Len(k)) = k

\* enums.py
FUEL_TYPES ==
  <<"Gasoline", "Diesel", "Electric", "Hybrid", "Other", "Unknown">>
TRANSMISSION_TYPES == <<"Manual", "Automatic", "Semi-automatic", "Unknown">>

\* scraper.py _format_fuel_type: fuel_type_map, in insertion order
fuel_type_map ==
  <<[k |-> Chars("essence"), v |-> "Gasoline"],
    [k |-> Chars("gasoline"), v |-> "Gasoline"],
    [k |-> Chars("petrol"), v |-> "Gasoline"],
    [k |-> Chars("benzine"), v |-> "Gasoline"],
    [k |-> Chars("b"), v |-> "Gasoline"],
    [k |-> Chars("diesel"), v |-> "Diesel"],
    [k |-> Chars("d"), v |-> "Diesel"],
    [k |-> Chars("electric"), v |-> "Electric"],
    [k |-> <<"e_acute", "l", "e", "c", "t", "r", "i", "q", "u", "e">>, v |-> "Electric"],
    [k |-> Chars("electrique"), v |-> "Electric"],
    [k |-> Chars("elektro"), v |-> "Electric"],
    [k |-> Chars("e"), v |-> "Electric"],
    [k |-> Chars("hybrid"), v |-> "Hybrid"],
    [k |-> Chars("hybride"), v |-> "Hybrid"],
    [k |-> Chars("h"), v |-> "Hybrid"],
    [k |-> Chars("lpg"), v |-> "Other"],
    [k |-> Chars("gpl"), v |-> "Other"],
    [k |-> Chars("l"), v |-> "Other"],
    [k |-> Chars("cng"), v |-> "Other"],
    [k |-> Chars("gnc"), v |-> "Other"],
    [k |-> Chars("c"), v |-> "Other"],
    [k |-> Chars("gas"), v |-> "Other"]>>

\* scraper.py _format_transmission: transmission_map, in insertion order
transmission_map ==
  <<[k |-> Chars("manual"), v |-> "Manual"],
    [k |-> Chars("manuelle"), v |-> "Manual"],
    [k |-> Chars("automatic"), v |-> "Automatic"],
    [k |-> Chars("automatique"), v |-> "Automatic"],
    [k |-> Chars("semi-automatic"), v |-> "Semi-automatic"],
    [k |-> Chars("semi-automatique"), v |-> "Semi-automatic"],
    [k |-> Chars("semi"), v |-> "Semi-automatic"],
    [k |-> <<"b", "o", "i_circ", "t", "e", " ", "m", "a", "n", "u", "e", "l", "l", "e">>, v |-> "Manual"],
    [k |-> Chars("boite manuelle"), v |-> "Manual"],
    [k |-> <<"b", "o", "i_circ", "t", "e", " ", "a", "u", "t", "o", "m", "a", "t", "i", "q", "u", "e">>, v |-> "Automatic"],
    [k |-> Chars("boite automatique"), v |-> "Automatic"]>>

\* data_processor.py _format_fuel_type: fuel_mapping
fuel_mapping ==
  <<[k |-> Chars("essence"), v |-> "Gasoline"],
    [k |-> Chars("gasoline"), v |-> "Gasoline"],
    [k |-> Chars("petrol"), v |-> "Gasoline"],
    [k |-> Chars("benzine"), v |-> "Gasoline"],
    [k |-> Chars("b"), v |-> "Gasoline"],
    [k |-> Chars("diesel"), v |-> "Diesel"],
    [k |-> Chars("d"), v |-> "Diesel"],
    [k |-> Chars("electric"), v |-> "Electric"],
    [k |-> <<"e_acute", "l", "e", "c", "t", "r", "i", "q", "u", "e">>, v |-> "Electric"],
    [k |-> Chars("electrique"), v |-> "Electric"],
    [k |-> Chars("elektro"), v |-> "Electric"],
    [k |-> Chars("e"), v |-> "Electric"],
    [k |-> Chars("hybrid"), v |-> "Hybrid"],
    [k |-> Chars("hybride"), v |-> "Hybrid"],
    [k |-> Chars("h"), v |-> "Hybrid"],
    [k |-> Chars("lpg"), v |-> "Other"],
    [k |-> Chars("gpl"), v |-> "Other"],
    [k |-> Chars("l"), v |-> "Other"],
    [k |-> Chars("cng"), v |-> "Other"],
    [k |-> Chars("gnc"), v |-> "Other"],
    [k |-> Chars("c"), v |-> "Other"],
    [k |-> Chars("gas"), v |-> "Other"]>>

\* data_processor.py _format_transmission: transmission_mapping
transmission_mapping ==
  <<[k |-> Chars("manual"), v |-> "Manual"],
    [k |-> Chars("manuelle"), v |-> "Manual"],
    [k |-> Chars("automatic"), v |-> "Automatic"],
    [k |-> Chars("automatique"), v |-> "Automatic"],
    [k |-> Chars("semi-automatic"), v |-> "Semi-automatic"],
    [k |-> Chars("semi-automatique"), v |-> "Semi-automatic"],
    [k |-> Chars("semi"), v |-> "Semi-automatic"]>>

\* for k, v in map.items(): if k in value: return v  (None: no key matched)
RECURSIVE FirstContained(_, _, _)
FirstContained(map, value, i) ==
  IF i > Len(map) THEN None
  ELSE IF Contains(map[i].k, value) THEN Some(map[i].v)
  ELSE FirstContained(map, value, i + 1)

\* if value in mapping: return mapping[value]  (None: not a key)
Lookup(map, value) ==
  IF \E i \in DOMAIN map : map[i].k = value
  THEN Some(map[CHOOSE i \in DOMAIN map : map[i].k = value].v)
  ELSE None

\* for t in TYPES: if value == t.lower(): return t; then "Unknown"
EnumOrUnknown(types, value) ==
  IF \E i \in DOMAIN types : StripLower(types[i]) = value
  THEN types[CHOOSE i \in DOMAIN types : StripLower(types[i]) = value]
  ELSE "Unknown"

\* The scraper's policy: first key contained in the value, then the enum
BySubstring(map, types, value) ==
  IF FirstContained(map, value, 1) # None
  THEN FirstContained(map, value, 1)[1]
  ELSE EnumOrUnknown(types, value)

\* The data processor's policy: the value as a key, then the enum
ByExactMatch(map, types, value) ==
  IF Lookup(map, value) # None THEN Lookup(map, value)[1]
  ELSE EnumOrUnknown(types, value)

\* scraper.py _clean_description
_clean_description(description) ==
  IF ~TruthyS(description) THEN "" ELSE CleanText(description[1])

\* scraper.py _extract_fuel_type, on data.get('vehicleEngine', [])
_extract_fuel_type(engine_data) ==
  IF TruthyS(engine_data) THEN engine_data[1] ELSE "Unknown"

\* scraper.py _extract_transmission: none of the three keys is on a script
_extract_transmission(data) == "Unknown"

\* scraper.py _extract_vehicle_info: all seven keys, whatever the script holds
_extract_vehicle_info(data) ==
  [brand |-> data.brand,
   model |-> data.model,
   year |-> None,
   mileage |-> None,
   fuel_type |-> Some(_extract_fuel_type(data.fuelType)),
   transmission |-> Some(_extract_transmission(data)),
   description |-> Some(_clean_description(data.description))]

\* scraper.py _extract_price_info: a falsy price that is not None is returned
\* as it is
_extract_price_info(data) ==
  LET price == IF TruthyN(data.price) THEN Some(IntFloat(data.price[1]))
               ELSE data.price
  IN  IF price # None THEN Entry("price", price) ELSE EmptyDict

\* the first offer of the list with a truthy price
RECURSIVE FirstPricedOffer(_, _)
FirstPricedOffer(prices, i) ==
  IF i > Len(prices) THEN None
  ELSE IF TruthyN(prices[i]) THEN Some(IntFloat(prices[i][1]))
  ELSE FirstPricedOffer(prices, i + 1)

\* scraper.py _extract_offers_info
_extract_offers_info(data) ==
  LET offers == data.offers[1]
      found == IF offers.kind = "dict"
               THEN (IF TruthyN(offers.prices[1])
                     THEN Some(IntFloat(offers.prices[1][1])) ELSE None)
               ELSE FirstPricedOffer(offers.prices, 1)
  IN  IF found # None THEN Entry("price", found) ELSE EmptyDict

\* if data.get('@type') == 'Car' ... if data.get('@type') == 'Product' ...
VehicleStep(car_data, data) ==
  IF \/ data.type = "Car"
     \/ /\ data.type = "Product"
        /\ \/ data.brand # None
           \/ data.model # None
           \/ data.fuelType # None
  THEN Update(car_data, _extract_vehicle_info(data))
  ELSE car_data

\* if 'price' in data
PriceStep(car_data, data) ==
  IF data.price # None THEN Update(car_data, _extract_price_info(data))
  ELSE car_data

\* if 'offers' in data
OffersStep(car_data, data) ==
  IF data.offers # None THEN Update(car_data, _extract_offers_info(data))
  ELSE car_data

\* One iteration of the loop over the JSON-LD scripts
ProcessScript(car_data, data) ==
  OffersStep(PriceStep(VehicleStep(car_data, data), data), data)

\* The three id patterns on the URL: URL 0 has no id segment
HasId(url) == url > 0
UrlId(url) == Some(url)

\* car_data = {'url': car_url, 'source_site': 'autoscout24'}
InitialCarData(url) ==
  [url |-> Some(url), source_site |-> Some("autoscout24")]

\* car_data['id'] = ... when one of the patterns matches
WithId(draft, url) ==
  IF HasId(url) THEN Update(draft, Entry("id", UrlId(url)))
  ELSE draft

\* The first script of the page, from position i on, that holds the key
RECURSIVE FirstWith(_, _, _)
FirstWith(ld, key, i) ==
  IF i > Len(ld) THEN None
  ELSE IF ld[i][key] # None THEN ld[i][key]
  ELSE FirstWith(ld, key, i + 1)

\* extracted[key] = listing_data[field] when the field is there
StateStep(extracted, listing_data, field, key) ==
  IF listing_data[field] # None
  THEN Update(extracted, Entry(key, listing_data[field]))
  ELSE extracted

\* scraper.py _extract_from_initial_state, on listing.listing
_extract_from_initial_state(listing_data) ==
  StateStep(StateStep(StateStep(EmptyDict, listing_data,
                                "description", "description"),
                      listing_data, "model", "model"),
            listing_data, "estimated", "estimated_price")

\* scraper.py _extract_fuel_type_from_html: the first "fuelType" string of
\* the document, else the keyword search
FuelTypeOr(first, word) ==
  IF first # None /\ CleanText(first[1]) # "" THEN CleanText(first[1])
  ELSE word
_extract_fuel_type_from_html(pg) ==
  FuelTypeOr(FirstWith(pg.ld, "fuelType", 1), pg.body.fuel_word)

\* scraper.py _extract_transmission_from_html
_extract_transmission_from_html(pg) == pg.body.transmission

\* scraper.py _extract_description_from_html
_extract_description_from_html(pg) == pg.body.description

\* for match in matches: extracted_data.update(_extract_from_initial_state)
EmbeddedState(pg) ==
  IF pg.state # None THEN _extract_from_initial_state(pg.state[1])
  ELSE EmptyDict

\* if not extracted_data.get('fuel_type')
EmbeddedFuelType(extracted_data, pg) ==
  IF ~TruthyS(Get(extracted_data, "fuel_type"))
  THEN Update(extracted_data,
              Entry("fuel_type", Some(_extract_fuel_type_from_html(pg))))
  ELSE extracted_data

\* if not extracted_data.get('transmission')
EmbeddedTransmission(extracted_data, pg) ==
  IF ~TruthyS(Get(extracted_data, "transmission"))
  THEN Update(extracted_data,
              Entry("transmission", Some(_extract_transmission_from_html(pg))))
  ELSE extracted_data

\* if not extracted_data.get('description'), the HTML patterns
EmbeddedDescription(extracted_data, pg) ==
  IF ~TruthyS(Get(extracted_data, "description"))
  THEN Update(extracted_data,
              Entry("description", Some(_extract_description_from_html(pg))))
  ELSE extracted_data

\* if not extracted_data.get('description'), the pattern "description": "..."
EmbeddedDescriptionPattern(extracted_data, desc_match) ==
  IF ~TruthyS(Get(extracted_data, "description")) /\ desc_match # None
  THEN Update(extracted_data,
              Entry("description", Some(RawText(desc_match[1]))))
  ELSE extracted_data

\* if not extracted_data.get('model'), the pattern "model": "..."
EmbeddedModelPattern(extracted_data, model_match) ==
  IF ~TruthyS(Get(extracted_data, "model")) /\ model_match # None
  THEN Update(extracted_data, Entry("model", model_match))
  ELSE extracted_data

\* scraper.py _extract_embedded_json_data: the guards read extracted_data, the
\* dict this function builds, never the draft of the caller
_extract_embedded_json_data(pg) ==
  EmbeddedModelPattern(
    EmbeddedDescriptionPattern(
      EmbeddedDescription(
        EmbeddedTransmission(
          EmbeddedFuelType(EmbeddedState(pg), pg), pg), pg),
      FirstWith(pg.ld, "description", 1)),
    FirstWith(pg.ld, "model", 1))

\* bool(car_data.get(field))
NumericFields == {"price", "estimated_price", "year", "mileage"}
Truthy(d, field) ==
  IF field \in {"id", "url"} THEN Get(d, field) # None
  ELSE IF field \in NumericFields THEN TruthyN(Get(d, field))
  ELSE TruthyS(Get(d, field))

required_fields == {"id", "url", "source_site"}
meaningful_fields == {"brand", "model", "price", "description"}
meaningful_data_count(d) ==
  Cardinality({field \in meaningful_fields : Truthy(d, field)})

\* scraper.py _validate_car_data
AtLeastMeaningful(n) == n >= MinMeaningful
_validate_car_data(car_data) ==
  /\ \A field \in required_fields : Truthy(car_data, field)
  /\ AtLeastMeaningful(meaningful_data_count(car_data))

\* scraper.py _format_fuel_type: the first alias, in the order of the alias
\* map, that is a substring of the lowered value; then the enum names
scraper_format_fuel_type(value) ==
  IF ~TruthyS(value) THEN "Unknown"
  ELSE BySubstring(fuel_type_map, FUEL_TYPES, StripLower(value[1]))

\* scraper.py _format_transmission
scraper_format_transmission(value) ==
  IF ~TruthyS(value) THEN "Unknown"
  ELSE BySubstring(transmission_map, TRANSMISSION_TYPES,
                   StripLower(value[1]))

\* scraper.py _format_brand
scraper_format_brand(value) ==
  IF ~TruthyS(value) THEN ""
  ELSE LET brand == StripTitle(value[1])
       IN  CASE brand = "Bmw" -> "BMW"
             [] brand = "Vw" -> "Volkswagen"
             [] OTHER -> brand

\* float(n) of a Python int, in hundredths
FloatOfInt(n) == n * 100

\* if 'fuel_type' in formatted
FormatFuelType(formatted) ==
  IF "fuel_type" \in DOMAIN formatted
  THEN Update(formatted,
              Entry("fuel_type",
                    Some(scraper_format_fuel_type(formatted["fuel_type"]))))
  ELSE formatted

\* if 'transmission' in formatted
FormatTransmission(formatted) ==
  IF "transmission" \in DOMAIN formatted
  THEN Update(formatted,
              Entry("transmission",
                    Some(scraper_format_transmission(formatted["transmission"]))))
  ELSE formatted

\* if 'brand' in formatted
FormatBrand(formatted) ==
  IF "brand" \in DOMAIN formatted
  THEN Update(formatted,
              Entry("brand", Some(scraper_format_brand(formatted["brand"]))))
  ELSE formatted

\* if 'price' in formatted and formatted['price']: the price is a Python int
FormatPrice(formatted) ==
  IF Truthy(formatted, "price")
  THEN Update(formatted,
              Entry("price", Some(IntFloat(FloatOfInt(formatted["price"][1])))))
  ELSE formatted

\* if 'estimated_price' in formatted and formatted['estimated_price']: the
\* estimate is still the JSON number of the page
FormatEstimatedPrice(formatted) ==
  IF Truthy(formatted, "estimated_price")
  THEN Update(formatted,
              Entry("estimated_price",
                    Some(IntFloat(formatted["estimated_price"][1]))))
  ELSE formatted

\* scraper.py _format_listing
_format_listing(data) ==
  FormatEstimatedPrice(
    FormatPrice(FormatBrand(FormatTransmission(FormatFuelType(data)))))

\* The loop over the JSON-LD scripts, from script i on
RECURSIVE ProcessScripts(_, _, _)
ProcessScripts(car_data, ld, i) ==
  IF i > Len(ld) THEN car_data
  ELSE ProcessScripts(ProcessScript(car_data, ld[i]), ld, i + 1)

\* return car_data if car_data.get('id') else None
IfHasId(car_data) == IF Truthy(car_data, "id") THEN Some(car_data) ELSE None

\* scraper.py _extract_json_ld_data
_extract_json_ld_data(pg, url) ==
  IfHasId(Update(WithId(ProcessScripts(InitialCarData(url), pg.ld, 1), url),
                 _extract_embedded_json_data(pg)))

\* if car_data: if self._validate_car_data(car_data): return formatted_data
ValidateAndFormat(extracted) ==
  IF extracted # None /\ _validate_car_data(extracted[1])
  THEN Some(_format_listing(extracted[1])) ELSE None

\* scraper.py _scrape_car_detail, once the page has been fetched
ExtractListing(pg, url) == ValidateAndFormat(_extract_json_ld_data(pg, url))

(***************************************************************************)
(* The pages of the model                                                  *)
(***************************************************************************)
Script(type, brand, model, description, price, offers, fuelType) ==
  [type |-> type, brand |-> brand, model |-> model,
   description |-> description, price |-> price, offers |-> offers,
   fuelType |-> fuelType]

OffersDict == Some([kind |-> "dict", prices |-> <<Some(OfferPrice)>>])
OffersList == Some([kind |-> "list", prices |-> <<Some(0), Some(OfferPrice)>>])

FirstScripts ==
  {Script(t, b, m, d, p, o, f) :
     t \in {"Car", "Product", "Other"},
     b \in {None, Some(" "), Some("bmw")},
     m \in {None, Some("Golf")},
     d \in {None, Some("One owner<br />")},
     p \in {None, Some(0), Some(PagePrice)},
     o \in {None, OffersDict, OffersList},
     f \in {None, Some("Diesel")}}

SecondScripts ==
  {Script("Car", Some("audi"), Some("Polo"), None, None, None, Some("Essence")),
   Script("Product", None, None, None, None, OffersDict, None),
   Script("Other", None, None, Some("Full options"), Some(PagePrice), None, None)}

\* no script, or a first script followed by up to MaxScripts - 1 others
LdSeqs ==
  {<< >>} \cup UNION {{<<a>> \o t : a \in FirstScripts,
                                    t \in [1 .. n -> SecondScripts]} :
                       n \in 0 .. MaxScripts - 1}

PlainBody == [description |-> "", fuel_word |-> "Unknown",
              transmission |-> "Unknown"]
Bodies ==
  [description : {"", "Garantie 12 mois, carnet complet, premier proprietaire"},
   fuel_word : {"Unknown", "Diesel"},
   transmission : {"Unknown", "Automatique"}]

States ==
  {None} \cup {Some(s) : s \in [description : {None, Some("Etat neuf")},
                                model : {None, Some("Golf GTI")},
                                estimated : {None, Some(PageEstimate)}]}

GoodScript ==
  Script("Car", Some("bmw"), Some("Golf"), Some("One owner<br />"),
         Some(PagePrice), None, Some("Diesel"))
BlankBrandScript ==
  Script("Car", Some(" "), Some("Golf"), None, None, None, None)
ThinScript ==
  Script("Car", None, Some("Golf"), None, None, None, None)

CoreLd == {<< >>, <<GoodScript>>, <<BlankBrandScript>>, <<ThinScript>>}

DetailPages ==
  {[ld |-> l, state |-> None, body |-> PlainBody] : l \in LdSeqs}
  \cup {[ld |-> l, state |-> s, body |-> b] :
          l \in CoreLd, s \in States, b \in Bodies}

\* The detail pages a run of the scraper meets
RunPages ==
  {[ld |-> l, state |-> None, body |-> PlainBody] :
     l \in {<<GoodScript>>, <<BlankBrandScript>>, <<ThinScript>>}}

(***************************************************************************)
(* The index pages                                                         *)
(***************************************************************************)
URLs == 0 .. NumUrls - 1
KnownUrls == 1 .. NumKnown
\* An index page is the set of its links: the known URLs 1 .. k for some k
\* and any set of the other URLs.
IndexPages ==
  {(1 .. k) \cup n : k \in 0 .. NumKnown, n \in SUBSET (URLs \ KnownUrls)}

\* The retry loop of both fetches: `fails` is how many requests fail before
\* one succeeds; attempt is the loop variable
RECURSIVE RetryLoop(_, _)
RetryLoop(attempt, fails) ==
  IF attempt >= fails THEN [ok |-> TRUE, attempts |-> attempt + 1]
  ELSE IF attempt < RetryAttempts - 1 THEN RetryLoop(attempt + 1, fails)
  ELSE [ok |-> FALSE, attempts |-> attempt + 1]

\* scraper.py _extract_car_urls_from_page: the links of the page as a set, and
\* [] when the fetch raised after its last attempt
_extract_car_urls_from_page(fails, links) ==
  IF RetryLoop(0, fails).ok THEN links ELSE {}

\* existing_count > len(car_urls) * 0.7
MostlyExisting(existing_count, len) ==
  ThresholdDen * existing_count > ThresholdNum * len

\* A faulty variant of ShouldStop, which waits for one more page: C1 must
\* fail with it.
ShouldStopLate(count) == count >= StopAfter + 1
\* if consecutive_existing_pages >= 2
ShouldStop(count) == count >= StopAfter

\* A faulty variant of LoopGuard, which lets one more page through: C3 must
\* fail with it.
LoopGuardOffByOne(page) == page <= max_pages + 1
\* while current_page <= self.max_pages
LoopGuard(page) == page <= max_pages

\* the orders list(set(urls)) may give the new URLs of a page
Orders(S) ==
  {s \in [1 .. Cardinality(S) -> S] : \A i, j \in DOMAIN s : s[i] = s[j] => i = j}

\* scraper.py _scrape_car_detail
_scrape_car_detail(fails, pg, url) ==
  IF RetryLoop(0, fails).ok THEN ExtractListing(pg, url) ELSE None

(***************************************************************************)
(* DataProcessor: from the scraper's listing to the database row           *)
(***************************************************************************)
\* Python values by type: None, an int, a float (in hundredths), a str (its
\* characters), a list (its items)
PyNone == [type |-> "NoneType"]
PyInt(n) == [type |-> "int", int |-> n]
PyFloat(c) == [type |-> "float", hundredths |-> c]
PyStr(cs) == [type |-> "str", chars |-> cs]

\* not value
Falsy(value) ==
  CASE value.type = "NoneType" -> TRUE
    [] value.type = "int" -> value.int = 0
    [] value.type = "float" -> value.hundredths = 0
    [] value.type = "str" -> value.chars = << >>
    [] value.type = "list" -> value.items = << >>

DigitChars == <<"0", "1", "2", "3", "4", "5", "6", "7", "8", "9">>
IsDigit(c) == \E i \in DOMAIN DigitChars : DigitChars[i] = c
DigitValue(c) == (CHOOSE i \in DOMAIN DigitChars : DigitChars[i] = c) - 1

\* ''.join(re.findall(r'\d+', value)): the digits of the string, in order
JoinedDigits(cs) == SelectSeq(cs, IsDigit)

\* int(digits) of a non-empty string of digits
RECURSIVE IntOfDigits(_)
IntOfDigits(ds) ==
  IF ds = << >> THEN 0
  ELSE 10 * IntOfDigits(SubSeq(ds, 1, Len(ds) - 1)) + DigitValue(ds[Len(ds)])

\* value if value > 0 else None
PositiveElseNone(n) == IF n > 0 THEN Some(n) ELSE None

\* the str branch: if numbers: return int(''.join(numbers)), whatever it is
DigitsOrNone(cs) ==
  IF JoinedDigits(cs) # << >> THEN Some(IntOfDigits(JoinedDigits(cs)))
  ELSE None

\* data_processor.py _parse_numeric
_parse_numeric(value) ==
  IF Falsy(value) THEN None
  ELSE CASE value.type = "int" -> PositiveElseNone(value.int)
         [] value.type = "str" -> DigitsOrNone(value.chars)
         [] value.type = "float" -> PositiveElseNone(IntFloat(value.hundredths))

\* raw_data.get(k), of a raw listing whose numbers are Python values
PyGet(d, k) == IF Get(d, k) = None THEN PyNone ELSE Get(d, k)[1]

\* The scraper's listing as process_listings_batch receives it: its price,
\* estimate and mileage are Python ints
AsRaw(d) ==
  [k \in DOMAIN d |->
     IF k \in {"price", "estimated_price", "mileage"} /\ d[k] # None
     THEN Some(PyInt(d[k][1])) ELSE d[k]]

\* Listing.__post_init__: the estimate defaults to the price
__post_init__(l) ==
  IF l.estimated_price = None /\ l.price # None
  THEN [l EXCEPT !.estimated_price = l.price] ELSE l

\* data_processor.py _create_listing_model: Listing(**listing_data)
_create_listing_model(raw_data) ==
  __post_init__(
    [id |-> Get(raw_data, "id"),
     url |-> Get(raw_data, "url"),
     source_site |-> Some("autoscout"),
     brand |-> Get(raw_data, "brand"),
     model |-> Get(raw_data, "model"),
     year |-> None,
     mileage |-> _parse_numeric(PyGet(raw_data, "mileage")),
     price |-> _parse_numeric(PyGet(raw_data, "price")),
     estimated_price |-> _parse_numeric(PyGet(raw_data, "estimated_price")),
     fuel_type |-> Get(raw_data, "fuel_type"),
     transmission |-> Get(raw_data, "transmission"),
     description |-> Get(raw_data, "description"),
     source_zipcode_id |-> None])

\* data_processor.py _map_location_to_zipcode: the listing has no location
_map_location_to_zipcode(l) == l

\* data_processor.py _format_fuel_type: an exact lookup of the lowered value
dp_format_fuel_type(value) ==
  IF value = "" THEN "Unknown"
  ELSE ByExactMatch(fuel_mapping, FUEL_TYPES, StripLower(value))

\* data_processor.py _format_transmission
dp_format_transmission(value) ==
  IF value = "" THEN "Unknown"
  ELSE ByExactMatch(transmission_mapping, TRANSMISSION_TYPES,
                    StripLower(value))

\* data_processor.py _format_brand
dp_format_brand(value) ==
  CASE StripTitle(value) = "Bmw" -> "BMW"
    [] StripTitle(value) = "Vw" -> "Volkswagen"
    [] OTHER -> StripTitle(value)

\* if listing.fuel_type / listing.transmission / listing.brand
DpEnums(l) ==
  [l EXCEPT
     !.fuel_type = IF TruthyS(@) THEN Some(dp_format_fuel_type(@[1])) ELSE @,
     !.transmission =
        IF TruthyS(@) THEN Some(dp_format_transmission(@[1])) ELSE @,
     !.brand = IF TruthyS(@) THEN Some(dp_format_brand(@[1])) ELSE @]

\* Mutant: the number is kept whatever its sign
KeepNumber(x) == x

\* int(x) if x > 0 else None, for a field that is not None
PositiveOrNone(x) == IF x # None /\ x[1] <= 0 THEN None ELSE x

\* if listing.price is not None ... listing.mileage is not None
DpNumbers(l) ==
  [l EXCEPT !.price = PositiveOrNone(@),
            !.estimated_price = PositiveOrNone(@),
            !.mileage = PositiveOrNone(@)]

\* if listing.estimated_price is None and listing.price is not None
DpEstimate(l) ==
  IF l.estimated_price = None /\ l.price # None
  THEN [l EXCEPT !.estimated_price = l.price] ELSE l

\* data_processor.py _format_listing_data
_format_listing_data(l) == DpEstimate(DpNumbers(DpEnums(l)))

\* if db_data.get(field) == '': db_data[field] = None
EmptyToNone(x) == IF x = Some("") THEN None ELSE x

\* data_processor.py _prepare_for_database
_prepare_for_database(l) ==
  [l EXCEPT !.brand = EmptyToNone(@),
            !.model = EmptyToNone(@),
            !.description = EmptyToNone(@)]

\* One iteration of process_listings_batch
ProcessListing(raw_listing) ==
  _prepare_for_database(
    _format_listing_data(
      _map_location_to_zipcode(_create_listing_model(raw_listing))))

(***************************************************************************)
(* db.py: DatabaseManager._matches_user_preferences                        *)
(*                                                                         *)
(* A listing is a row of _prepare_for_database: asdict(listing) holds every *)
(* key, so listing.get(key, 0) reads the value of the row, None included.   *)
(* A user is a row of the users table [price_min, price_max, mileage_max,  *)
(* year_min], every column nullable; user_zipcodes is the list of the       *)
(* user's zipcode ids, read for emptiness and membership only.             *)
(***************************************************************************)
\* x or d
OrDefault(x, d) == IF TruthyN(x) THEN x[1] ELSE d

\* mileage_min = 0
mileage_min == 0

\* The value returned, and the statement that returned it
Return(result, at) == [result |-> result, at |-> at]

\* int(listing_year[:4]) of an ISO date
YearInt(listing_year) ==
  CASE listing_year = "2015-01-01" -> 2015
    [] listing_year = "2018-01-01" -> 2018
    [] listing_year = "2019-01-01" -> 2019
    [] listing_year = "2020-01-01" -> 2020

\* A faulty variant of PriceOutOfRange, which shuts the upper bound out: C9
\* must fail with it.
PriceOutOfRangeExclusive(listing_price, price_min_cents, price_max_cents) ==
  listing_price < price_min_cents \/ listing_price >= price_max_cents
\* listing_price < price_min_cents or listing_price > price_max_cents
PriceOutOfRange(listing_price, price_min_cents, price_max_cents) ==
  listing_price < price_min_cents \/ listing_price > price_max_cents

\* listing_mileage < mileage_min or listing_mileage > mileage_max
MileageOutOfRange(listing_mileage, mileage_max) ==
  listing_mileage < mileage_min \/ listing_mileage > mileage_max

\* if listing_year: ... if year_min and year_int < int(year_min)
YearRejects(listing_year, year_min) ==
  /\ TruthyS(listing_year)
  /\ TruthyN(year_min)
  /\ YearInt(listing_year[1]) < year_min[1]

\* A faulty variant of ZipcodeRejects, which rejects a listing without a
\* zipcode id: C10 must fail with it.
ZipcodeRejectsAbsent(user_zipcodes, source_zipcode_id) ==
  /\ user_zipcodes # {}
  /\ (~TruthyN(source_zipcode_id) \/ source_zipcode_id[1] \notin user_zipcodes)
\* if user_zipcodes and listing.get('source_zipcode_id'): if ... not in
ZipcodeRejects(user_zipcodes, source_zipcode_id) ==
  /\ user_zipcodes # {}
  /\ TruthyN(source_zipcode_id)
  /\ source_zipcode_id[1] \notin user_zipcodes

LocationCheck(listing, user_zipcodes) ==
  IF ZipcodeRejects(user_zipcodes, listing.source_zipcode_id)
  THEN Return(FALSE, "zipcode")
  ELSE Return(TRUE, "match")

YearCheck(listing, user, user_zipcodes) ==
  IF YearRejects(listing.year, user.year_min) THEN Return(FALSE, "year")
  ELSE LocationCheck(listing, user_zipcodes)

\* None < int raises TypeError, which the except clause turns into False
MileageCheck(listing, user, user_zipcodes) ==
  IF listing.mileage = None THEN Return(FALSE, "mileage_error")
  ELSE IF MileageOutOfRange(listing.mileage[1],
                            OrDefault(user.mileage_max, DefaultMileageMax))
  THEN Return(FALSE, "mileage")
  ELSE YearCheck(listing, user, user_zipcodes)

_matches_user_preferences(listing, user, user_zipcodes) ==
  IF listing.price = None THEN Return(FALSE, "price_error")
  ELSE IF PriceOutOfRange(listing.price[1],
                          OrDefault(user.price_min, 0) * CentsPerEuro,
                          OrDefault(user.price_max, DefaultPriceMax)
                            * CentsPerEuro)
  THEN Return(FALSE, "price")
  ELSE MileageCheck(listing, user, user_zipcodes)

\* The preferences of the users of the model
PrefPriceMin == 10000
PrefPriceMax == 20000
PrefMileageMax == 150000
PrefYearMin == 2018

MatchPrices ==
  {None} \cup
  {Some(p) : p \in {1, PrefPriceMin * CentsPerEuro - 1,
                    PrefPriceMin * CentsPerEuro, 1500000,
                    PrefPriceMax * CentsPerEuro,
                    PrefPriceMax * CentsPerEuro + 1, 2500000,
                    DefaultPriceMax * CentsPerEuro,
                    DefaultPriceMax * CentsPerEuro + 1}}
MatchMileages ==
  {None} \cup
  {Some(k) : k \in {1, PrefMileageMax, PrefMileageMax + 1, DefaultMileageMax,
                    DefaultMileageMax + 1}}
MatchYears ==
  {None, Some("2015-01-01"), Some("2018-01-01"), Some("2019-01-01"),
   Some("2020-01-01")}
MatchZipcodeIds == {None, Some(1), Some(2)}

MatchListings ==
  [price : MatchPrices, mileage : MatchMileages, year : MatchYears,
   source_zipcode_id : MatchZipcodeIds]
MatchUsers ==
  [price_min : {None, Some(0), Some(PrefPriceMin)},
   price_max : {None, Some(0), Some(PrefPriceMax)},
   mileage_max : {None, Some(0), Some(PrefMileageMax)},
   year_min : {None, Some(0), Some(PrefYearMin)}]
MatchZipcodes == {{}, {1}}

(***************************************************************************)
(* State                                                                   *)
(***************************************************************************)
VARIABLES
  \* AutoscoutScraper.scrape_all_listings
  pc,                          \* "load", "collect", "detail", "done"; "off"
  existing_urls,               \* self.existing_urls
  current_page,
  consecutive_existing_pages,
  stop_reason,
  all_urls,
  scraped_listings,            \* self.scraped_listings
  \* history of the run
  page_log,                    \* one entry per call of _extract_car_urls_from_page
  seen_new,                    \* URLs of fetched pages that were not known
  detail_calls,                \* the URLs _scrape_car_detail was called with
  \* one detail page through the cascade
  stage,                       \* "scripts", "embedded", "validate", "format",
                               \* "process", "done"; "off"
  page,
  car_url,
  scripts_done,                \* JSON-LD scripts processed so far
  car_data,                    \* the draft
  after_ld,                    \* the draft as the JSON-LD strategy left it
  listing,                     \* what _scrape_car_detail returns
  row,                         \* what the DataProcessor hands to the database
  \* one call of _matches_user_preferences
  m_listing,
  m_user,
  m_zipcodes,
  m_result,
  \* DatabaseManager._link_listings_to_users
  user_listings,               \* the rows of the user_listings table
  link_pc,                     \* "idle", "loop"; "off"
  link_batch,                  \* listings: the ids of the listings to link
  link_users,                  \* users_result.data: the ids of the users
  link_i,                      \* position of the outer loop
  link_j,                      \* position of the inner loop
  linked_count,
  link_inserted,               \* history: rows this call has inserted
  link_returned,               \* what the last call returned
  link_calls,                  \* calls so far
  link_last,                   \* history: the last _create_user_listing_link
  \* DatabaseManager.insert_listings_batch
  listings_table,              \* the ids (one per URL) of the listings table
  ins_pc,                      \* "idle", "rows"; "off"
  ins_batch,                   \* listings_data: the ids of the rows
  ins_i,                       \* position of the fallback loop
  stored_count,
  failed_listings,             \* the ids of the rows whose insert failed
  ins_fallback,                \* history: the multi-row insert has failed
  ins_attempts,                \* history: the positions tried one by one
  ins_returned,                \* what the last call returned
  ins_calls,                   \* calls so far
  ins_stored,                  \* ids this call has stored
  ins_handed,                  \* the list handed to the linking, or None
  \* ListingChecker: the sweeps over the listings table
  listing_rows,                \* the listings table: id -> [exists,
                               \* updated_at, price, price_history]
  notifications,               \* the rows of the notifications table
  now,                         \* datetime.now(), in hours
  chk_pc,                      \* "idle", "sweep"; "off"
  check_type,                  \* "linked" or "unlinked"
  chk_listings,                \* listings: the rows the query returned
  chk_k,                       \* position of the loop
  existence_changes,
  price_changes,
  errors,
  chk_failed,                  \* history: checks of the sweep that failed
  chk_probed,                  \* history: the ids probed, in order
  chk_selected,                \* history: the tables and the time of the
                               \* selection
  chk_last,                    \* history: the last check of a listing
  chk_returned,                \* what the last sweep returned
  chk_sweeps,                  \* sweeps so far
  \* one detail page, stored and then re-checked
  rc_pc,                       \* "fetched", "stored", "rechecked"; "off"
  rc_page,                     \* the page, the same at both visits
  rc_row,                      \* the row the Extractor has stored, or None
  rc_current,                  \* current_price of the re-check
  \* AutoscoutOrchestrator.run
  run_pc,                      \* position in run(); "off"
  run_urls,                    \* candidate URLs of the detail phase
  run_details,                 \* detail pages scraped so far
  run_scraped,                 \* Len(scraper.scraped_listings)
  run_processed,               \* Len(processed_listings), None before
  run_insert_calls,            \* calls of insert_listings_batch
  run_persisted,               \* listings of this run in the table
  run_error_reports,           \* calls of _send_error_report
  run_final_reports,           \* calls of _send_final_report
  run_raised,                  \* the step an exception escaped from, or None
  run_maintenance,             \* "ok" or "failed" once the checks have run
  \* one fuel type and one transmission through the normalizers
  nz_pc,                       \* "raw", "scraped", "processed"; "off"
  nz_fuel_raw,                 \* the fuel value as found
  nz_transmission_raw,         \* the transmission value as found
  nz_fuel_type,                \* fuel_type of the listing so far
  nz_transmission,             \* transmission of the listing so far
  nz_scraped,                  \* the scraper's normalizer has run
  \* one call of DataProcessor._parse_numeric
  pn_pc,                       \* "given", "parsed"; "off"
  pn_value,                    \* the value handed to _parse_numeric
  pn_result,                   \* what it returned
  \* the image URLs of one listing
  img_pc,                      \* "page", "scraped", "processed"; "off"
  img_images,                  \* the image value found on the page
  img_origin,                  \* where it was found: "json_ld" or "state"
  img_raw,                     \* image_url of the scraper's listing, or None
  img_result,                  \* image_url of the processed listing
  \* one call of DataProcessor.process_listings_batch
  pb_pc,                       \* "loop", "returned"; "off"
  raw_listings,                \* the batch: raw listings, each with whether a step raises on it
  pb_i,                        \* iterations of the loop done
  processed_listings,          \* the list process_listings_batch builds
  \* the runs of the orchestrator over the stored listings
  mt_pc,                       \* "idle", "linked", "unlinked", "scrape"; "off"
  mt_listings,                 \* the selection of the sweep at hand
  mt_k,                        \* index of the listing at hand
  mt_checked,                  \* the checks of the run, in order
  mt_runs                      \* runs started

collector_vars ==
  <<pc, existing_urls, current_page, consecutive_existing_pages, stop_reason,
    all_urls, scraped_listings, page_log, seen_new, detail_calls>>
extract_vars ==
  <<stage, page, car_url, scripts_done, car_data, after_ld, listing, row>>
match_vars == <<m_listing, m_user, m_zipcodes, m_result>>
link_vars ==
  <<user_listings, link_pc, link_batch, link_users, link_i, link_j,
    linked_count, link_inserted, link_returned, link_calls, link_last>>
scraper_vars == <<collector_vars, extract_vars, match_vars>>
\* The variables of the database side
link_local ==
  <<link_pc, link_batch, link_users, link_i, link_j, linked_count,
    link_inserted, link_returned, link_calls, link_last>>
insert_vars ==
  <<listings_table, ins_pc, ins_batch, ins_i, stored_count, failed_listings,
    ins_fallback, ins_attempts, ins_returned, ins_calls, ins_stored,
    ins_handed>>
check_vars ==
  <<listing_rows, notifications, now, chk_pc, check_type, chk_listings,
    chk_k, existence_changes, price_changes, errors, chk_failed, chk_probed,
    chk_selected, chk_last, chk_returned, chk_sweeps>>
recheck_vars == <<rc_pc, rc_page, rc_row, rc_current>>
run_vars ==
  <<run_pc, run_urls, run_details, run_scraped, run_processed,
    run_insert_calls, run_persisted, run_error_reports, run_final_reports,
    run_raised, run_maintenance>>
normalize_vars ==
  <<nz_pc, nz_fuel_raw, nz_transmission_raw, nz_fuel_type, nz_transmission,
    nz_scraped>>
parse_vars ==
  <<pn_pc, pn_value, pn_result>>
image_vars ==
  <<img_pc, img_images, img_origin, img_raw, img_result>>
batch_vars ==
  <<pb_pc, raw_listings, pb_i, processed_listings>>
maintain_vars ==
  <<mt_pc, mt_listings, mt_k, mt_checked, mt_runs>>
store_vars ==
  <<link_vars, insert_vars, check_vars, recheck_vars, run_vars,
    normalize_vars, parse_vars, image_vars, batch_vars, maintain_vars>>
vars == <<scraper_vars, store_vars>>

ExtractOff ==
  /\ stage = "off" /\ page = None /\ car_url = None /\ scripts_done = 0
  /\ car_data = None /\ after_ld = None /\ listing = None /\ row = None
MatchOff ==
  /\ m_listing = None /\ m_user = None /\ m_zipcodes = None /\ m_result = None
LinkOff ==
  /\ user_listings = << >> /\ link_pc = "off" /\ link_batch = << >>
  /\ link_users = << >> /\ link_i = 0 /\ link_j = 0 /\ linked_count = 0
  /\ link_inserted = 0 /\ link_returned = None /\ link_calls = 0
  /\ link_last = None
InsertOff ==
  /\ listings_table = {} /\ ins_pc = "off" /\ ins_batch = << >> /\ ins_i = 0
  /\ stored_count = 0 /\ failed_listings = << >> /\ ins_fallback = FALSE
  /\ ins_attempts = << >> /\ ins_returned = None /\ ins_calls = 0
  /\ ins_stored = {} /\ ins_handed = None
CheckOff ==
  /\ listing_rows = << >> /\ notifications = << >> /\ now = 0
  /\ chk_pc = "off" /\ check_type = "" /\ chk_listings = << >> /\ chk_k = 0
  /\ existence_changes = 0 /\ price_changes = 0 /\ errors = 0
  /\ chk_failed = 0 /\ chk_probed = << >> /\ chk_selected = None
  /\ chk_last = None /\ chk_returned = None /\ chk_sweeps = 0
RecheckOff ==
  rc_pc = "off" /\ rc_page = None /\ rc_row = None /\ rc_current = None
RunOff ==
  /\ run_pc = "off" /\ run_urls = 0 /\ run_details = 0 /\ run_scraped = 0
  /\ run_processed = None /\ run_insert_calls = 0 /\ run_persisted = 0
  /\ run_error_reports = 0 /\ run_final_reports = 0 /\ run_raised = None
  /\ run_maintenance = None
NormalizeOff ==
  /\ nz_pc = "off" /\ nz_fuel_raw = "" /\ nz_transmission_raw = ""
  /\ nz_fuel_type = "" /\ nz_transmission = "" /\ nz_scraped = FALSE
ParseOff ==
  pn_pc = "off" /\ pn_value = None /\ pn_result = None
ImageOff ==
  img_pc = "off" /\ img_images = None /\ img_origin = "" /\ img_raw = None /\ img_result = << >>
BatchOff ==
  pb_pc = "off" /\ raw_listings = << >> /\ pb_i = 0 /\ processed_listings = << >>
MaintainOff ==
  mt_pc = "off" /\ mt_listings = << >> /\ mt_k = 0 /\ mt_checked = << >> /\ mt_runs = 0
StoreOff ==
  /\ LinkOff /\ InsertOff /\ CheckOff /\ RecheckOff /\ RunOff
  /\ NormalizeOff /\ ParseOff /\ ImageOff /\ BatchOff /\ MaintainOff
CollectorOff ==
  /\ pc = "off" /\ existing_urls = {} /\ current_page = 1
  /\ consecutive_existing_pages = 0 /\ stop_reason = None
  /\ all_urls = << >> /\ scraped_listings = << >>
  /\ page_log = << >> /\ seen_new = {} /\ detail_calls = << >>
ScraperOff == CollectorOff /\ ExtractOff /\ MatchOff

\* What the actions of the linking leave alone
link_frame == <<scraper_vars, insert_vars, check_vars, recheck_vars, run_vars,
    normalize_vars,
    parse_vars,
    image_vars,
    batch_vars,
    maintain_vars>>
LinkFrameOff ==
  /\ ScraperOff /\ InsertOff /\ CheckOff /\ RecheckOff /\ RunOff
  /\ NormalizeOff
  /\ ParseOff
  /\ ImageOff
  /\ BatchOff
  /\ MaintainOff
\* What the actions of the insertion leave alone
insert_frame ==
  <<scraper_vars, link_local, check_vars, recheck_vars, run_vars,
    normalize_vars,
    parse_vars,
    image_vars,
    batch_vars,
    maintain_vars>>
InsertFrameOff ==
  /\ ScraperOff /\ LinkOff /\ CheckOff /\ RecheckOff /\ RunOff
  /\ NormalizeOff
  /\ ParseOff
  /\ ImageOff
  /\ BatchOff
  /\ MaintainOff
\* What the actions of the sweeps leave alone
check_frame ==
  <<scraper_vars, link_local, insert_vars, recheck_vars, run_vars,
    normalize_vars,
    parse_vars,
    image_vars,
    batch_vars,
    maintain_vars>>
LinkLocalOff ==
  /\ link_pc = "off" /\ link_batch = << >> /\ link_users = << >>
  /\ link_i = 0 /\ link_j = 0 /\ linked_count = 0 /\ link_inserted = 0
  /\ link_returned = None /\ link_calls = 0 /\ link_last = None
CheckFrameOff ==
  /\ ScraperOff /\ LinkLocalOff /\ InsertOff /\ RecheckOff /\ RunOff
  /\ NormalizeOff
  /\ ParseOff
  /\ ImageOff
  /\ BatchOff
  /\ MaintainOff
\* What the actions on the re-checked page leave alone
recheck_frame ==
  <<scraper_vars, link_vars, insert_vars, check_vars, run_vars,
    normalize_vars,
    parse_vars,
    image_vars,
    batch_vars,
    maintain_vars>>
RecheckFrameOff ==
  /\ ScraperOff /\ LinkOff /\ InsertOff /\ CheckOff /\ RunOff
  /\ NormalizeOff
  /\ ParseOff
  /\ ImageOff
  /\ BatchOff
  /\ MaintainOff
\* What the steps of run() leave alone
run_frame ==
  <<scraper_vars, link_vars, insert_vars, check_vars, recheck_vars,
    normalize_vars,
    parse_vars,
    image_vars,
    batch_vars,
    maintain_vars>>
RunFrameOff ==
  /\ ScraperOff /\ LinkOff /\ InsertOff /\ CheckOff /\ RecheckOff
  /\ NormalizeOff
  /\ ParseOff
  /\ ImageOff
  /\ BatchOff
  /\ MaintainOff
\* What the normalizers leave alone
normalize_frame ==
  <<scraper_vars, link_vars, insert_vars, check_vars, recheck_vars, run_vars,
    parse_vars,
    image_vars,
    batch_vars,
    maintain_vars>>
NormalizeFrameOff ==
  /\ ScraperOff /\ LinkOff /\ InsertOff /\ CheckOff /\ RecheckOff /\ RunOff
  /\ ParseOff
  /\ ImageOff
  /\ BatchOff
  /\ MaintainOff
\* What the calls of _parse_numeric leave alone
parse_frame ==
  <<scraper_vars, link_vars, insert_vars, check_vars, recheck_vars,
    run_vars, normalize_vars,
    image_vars,
    batch_vars,
    maintain_vars>>
ParseFrameOff ==
  /\ ScraperOff /\ LinkOff /\ InsertOff /\ CheckOff /\ RecheckOff
  /\ RunOff /\ NormalizeOff
  /\ ImageOff
  /\ BatchOff
  /\ MaintainOff
\* What the steps on the image URLs leave alone
image_frame ==
  <<scraper_vars, link_vars, insert_vars, check_vars, recheck_vars,
    run_vars, normalize_vars, parse_vars,
    batch_vars,
    maintain_vars>>
ImageFrameOff ==
  /\ ScraperOff /\ LinkOff /\ InsertOff /\ CheckOff /\ RecheckOff
  /\ RunOff /\ NormalizeOff /\ ParseOff
  /\ BatchOff
  /\ MaintainOff
\* What the iterations of process_listings_batch leave alone
batch_frame ==
  <<scraper_vars, link_vars, insert_vars, check_vars, recheck_vars,
    run_vars, normalize_vars, parse_vars, image_vars,
    maintain_vars>>
BatchFrameOff ==
  /\ ScraperOff /\ LinkOff /\ InsertOff /\ CheckOff /\ RecheckOff
  /\ RunOff /\ NormalizeOff /\ ParseOff /\ ImageOff
  /\ MaintainOff
\* What the steps of the runs over the stored listings leave alone
maintain_frame ==
  <<scraper_vars, link_vars, insert_vars, check_vars, recheck_vars,
    run_vars, normalize_vars, parse_vars, image_vars, batch_vars>>
MaintainFrameOff ==
  /\ ScraperOff /\ LinkOff /\ InsertOff /\ CheckOff /\ RecheckOff
  /\ RunOff /\ NormalizeOff /\ ParseOff /\ ImageOff /\ BatchOff

(***************************************************************************)
(* Spec: one run of scrape_all_listings                                    *)
(***************************************************************************)
\* AutoscoutScraper.__init__ and the locals of scrape_all_listings
Init ==
  /\ pc = "load"
  /\ existing_urls = {}
  /\ current_page = 1
  /\ consecutive_existing_pages = 0
  /\ stop_reason = None
  /\ all_urls = << >>
  /\ scraped_listings = << >>
  /\ page_log = << >>
  /\ seen_new = {}
  /\ detail_calls = << >>
  /\ ExtractOff
  /\ MatchOff
  /\ StoreOff

\* if self.db: self._load_existing_urls() -- the recent URLs of the database,
\* or the empty set when there is no database or the query raised
LoadExistingUrls ==
  /\ pc = "load"
  /\ existing_urls' \in {KnownUrls, {}}
  /\ pc' = "collect"
  /\ UNCHANGED <<current_page, consecutive_existing_pages, stop_reason,
                 all_urls, scraped_listings, page_log, seen_new,
                 detail_calls>>
  /\ UNCHANGED <<extract_vars, match_vars, store_vars>>

PageKind(car_urls, mostly) ==
  IF car_urls = {} THEN "empty" ELSE IF mostly THEN "mostly" ELSE "fresh"

\* One iteration of the while loop of the collection phase
FetchPage ==
  /\ pc = "collect"
  /\ LoopGuard(current_page)
  /\ \E fails \in 0 .. RetryAttempts, links \in IndexPages :
       LET fetch == RetryLoop(0, fails)
           car_urls == _extract_car_urls_from_page(fails, links)
           existing_count ==
             Cardinality({url \in car_urls : url \in existing_urls})
           mostly == MostlyExisting(existing_count, Cardinality(car_urls))
           count == IF mostly THEN consecutive_existing_pages + 1 ELSE 0
           new_urls == {url \in car_urls : url \notin existing_urls}
       IN  /\ Len(all_urls) + Cardinality(new_urls) <= MaxCandidates
           /\ page_log' = Append(page_log,
                                 [page |-> current_page, ok |-> fetch.ok,
                                  kind |-> PageKind(car_urls, mostly)])
           /\ seen_new' = seen_new \cup new_urls
           /\ IF car_urls = {}
              THEN /\ stop_reason' = Some("No more cars found")
                   /\ pc' = "detail"
                   /\ UNCHANGED <<consecutive_existing_pages, all_urls,
                                  current_page>>
              ELSE IF mostly /\ ShouldStop(count)
              THEN /\ consecutive_existing_pages' = count
                   /\ stop_reason' =
                        Some("Hit existing listings on consecutive pages")
                   /\ pc' = "detail"
                   /\ UNCHANGED <<all_urls, current_page>>
              ELSE /\ consecutive_existing_pages' = count
                   /\ \E order \in Orders(new_urls) :
                        all_urls' = all_urls \o order
                   /\ current_page' = current_page + 1
                   /\ UNCHANGED <<stop_reason, pc>>
  /\ UNCHANGED <<existing_urls, scraped_listings, detail_calls>>
  /\ UNCHANGED <<extract_vars, match_vars, store_vars>>

\* The while condition fails: the collection phase is over
LeaveLoop ==
  /\ pc = "collect"
  /\ ~LoopGuard(current_page)
  /\ pc' = "detail"
  /\ UNCHANGED <<existing_urls, current_page, consecutive_existing_pages,
                 stop_reason, all_urls, scraped_listings, page_log,
                 seen_new, detail_calls>>
  /\ UNCHANGED <<extract_vars, match_vars, store_vars>>

\* One iteration of the for loop of the detail phase
ScrapeDetail ==
  /\ pc = "detail"
  /\ Len(detail_calls) < Len(all_urls)
  /\ \E fails \in 0 .. RetryAttempts, p \in RunPages :
       LET url == all_urls[Len(detail_calls) + 1]
           result == _scrape_car_detail(fails, p, url)
       IN  /\ scraped_listings' =
                IF result # None THEN Append(scraped_listings, result[1])
                ELSE scraped_listings
           /\ detail_calls' = Append(detail_calls, url)
  /\ UNCHANGED <<pc, existing_urls, current_page, consecutive_existing_pages,
                 stop_reason, all_urls, page_log, seen_new>>
  /\ UNCHANGED <<extract_vars, match_vars, store_vars>>

\* The for loop is over: scrape_all_listings returns
Finish ==
  /\ pc = "detail"
  /\ Len(detail_calls) = Len(all_urls)
  /\ pc' = "done"
  /\ UNCHANGED <<existing_urls, current_page, consecutive_existing_pages,
                 stop_reason, all_urls, scraped_listings, page_log,
                 seen_new, detail_calls>>
  /\ UNCHANGED <<extract_vars, match_vars, store_vars>>

Next ==
  \/ LoadExistingUrls
  \/ FetchPage
  \/ LeaveLoop
  \/ ScrapeDetail
  \/ Finish

Spec == Init /\ [][Next]_vars

(***************************************************************************)
(* Claims about the collection and detail phases, checked under Spec       *)
(***************************************************************************)
\* how many entries at the end of the log are pages that were mostly known
RECURSIVE TrailingMostly(_)
TrailingMostly(log) ==
  IF log = << >> \/ log[Len(log)].kind # "mostly" THEN 0
  ELSE 1 + TrailingMostly(SubSeq(log, 1, Len(log) - 1))

CollectionOver == pc \in {"detail", "done"}

\* C1: the index pages are fetched in the order 1, 2, ...; while the loop
\* runs the counter is the number of pages, counted back from the latest one,
\* that were each more than 70% known, so a page at or below 70% puts it back
\* to 0; and once two pages in a row p, p+1 were more than 70% known the loop
\* is over with p+1 the last page fetched.
C1_StoppingRule ==
  /\ \A i \in 1 .. Len(page_log) : page_log[i].page = i
  /\ pc = "collect" =>
       consecutive_existing_pages = TrailingMostly(page_log)
  /\ \A p \in 1 .. Len(page_log) - 1 :
       (page_log[p].kind = "mostly" /\ page_log[p + 1].kind = "mostly")
         => (CollectionOver /\ Len(page_log) = p + 1)

\* C1 witness: page 1 mostly known, page 2 not (the counter is put back to 0),
\* pages 3 and 4 mostly known: the run stopped after page 4 of 5.
C1_Witness ==
  /\ CollectionOver
  /\ Len(page_log) = 4 /\ 4 < max_pages
  /\ page_log[1].kind = "mostly" /\ page_log[2].kind = "fresh"
  /\ page_log[3].kind = "mostly" /\ page_log[4].kind = "mostly"
  /\ stop_reason = Some("Hit existing listings on consecutive pages")

\* C2, as stated: every URL seen on a fetched index page that was not known is
\* in the candidate list, the page on which the stopping rule fires included.
C2_NewUrlsAccumulate == seen_new \subseteq Range(all_urls)

\* C3: at most max_pages pages are fetched, the page number grows by one with
\* each fetch, and a page that yields no URL is the last page fetched.
C3_CollectionTerminates ==
  /\ Len(page_log) <= max_pages
  /\ pc = "collect" => current_page = Len(page_log) + 1
  /\ \A i \in 1 .. Len(page_log) :
       /\ page_log[i].page = i
       /\ page_log[i].kind = "empty" => (i = Len(page_log) /\ CollectionOver)

\* C3 witness: the run fetched max_pages pages, none of them empty, and left
\* the loop by its condition.
C3_Witness ==
  /\ CollectionOver
  /\ Len(page_log) = max_pages
  /\ \A i \in 1 .. Len(page_log) : page_log[i].kind # "empty"
  /\ stop_reason = None

\* C4, as stated: when the fetch of index page p fails after its last retry
\* and p < max_pages, the collector goes on to fetch page p + 1.
C4_PageFailureIsItemScoped ==
  CollectionOver =>
    \A p \in 1 .. Len(page_log) :
      (~page_log[p].ok /\ p < max_pages) => Len(page_log) >= p + 1

\* C5, as stated: a fetch makes at most three requests, and when the run is
\* over every candidate URL has been passed to _scrape_car_detail exactly once.
C5_EachCandidateOnce ==
  /\ \A fails \in 0 .. RetryAttempts :
       RetryLoop(0, fails).attempts <= RetryAttempts
  /\ pc = "done" =>
       \A url \in Range(all_urls) : Count(detail_calls, url) = 1

\* C6, as stated: every element of scraped_listings satisfies the predicate
\* of the validation gate.
C6_ScrapedListingsPassGate ==
  \A i \in 1 .. Len(scraped_listings) : _validate_car_data(scraped_listings[i])

(***************************************************************************)
(* SpecExtract: one detail page, from the fetched document to the row      *)
(***************************************************************************)
\* The URLs of the extraction runs: one without an id segment, one with
ExtractUrls == {0, NumKnown + 1}

InitExtract ==
  /\ stage = "scripts"
  /\ page \in DetailPages
  /\ car_url \in ExtractUrls
  /\ scripts_done = 0
  /\ car_data = InitialCarData(car_url)
  /\ after_ld = None
  /\ listing = None
  /\ row = None
  /\ CollectorOff
  /\ MatchOff
  /\ StoreOff

\* for script in json_ld_scripts: one iteration
JsonLdScript ==
  /\ stage = "scripts"
  /\ scripts_done < Len(page.ld)
  /\ car_data' = ProcessScript(car_data, page.ld[scripts_done + 1])
  /\ scripts_done' = scripts_done + 1
  /\ UNCHANGED <<stage, page, car_url, after_ld, listing, row>>
  /\ UNCHANGED <<collector_vars, match_vars, store_vars>>

\* The loop is over: the id is read from the URL
CarId ==
  /\ stage = "scripts"
  /\ scripts_done = Len(page.ld)
  /\ car_data' = WithId(car_data, car_url)
  /\ after_ld' = Some(car_data')
  /\ stage' = "embedded"
  /\ UNCHANGED <<page, car_url, scripts_done, listing, row>>
  /\ UNCHANGED <<collector_vars, match_vars, store_vars>>

\* car_data.update(self._extract_embedded_json_data(html_content)), and the
\* return of _extract_json_ld_data
EmbeddedUpdate ==
  /\ stage = "embedded"
  /\ car_data' = Update(car_data, _extract_embedded_json_data(page))
  /\ stage' = IF IfHasId(car_data') # None THEN "validate" ELSE "done"
  /\ UNCHANGED <<page, car_url, scripts_done, after_ld, listing, row>>
  /\ UNCHANGED <<collector_vars, match_vars, store_vars>>

\* if self._validate_car_data(car_data): ... else: return None
Validate ==
  /\ stage = "validate"
  /\ stage' = IF _validate_car_data(car_data) THEN "format" ELSE "done"
  /\ UNCHANGED <<page, car_url, scripts_done, car_data, after_ld, listing, row>>
  /\ UNCHANGED <<collector_vars, match_vars, store_vars>>

\* formatted_data = self._format_listing(car_data); return formatted_data
Format ==
  /\ stage = "format"
  /\ listing' = Some(_format_listing(car_data))
  /\ stage' = "process"
  /\ UNCHANGED <<page, car_url, scripts_done, car_data, after_ld, row>>
  /\ UNCHANGED <<collector_vars, match_vars, store_vars>>

\* process_listings_batch on the listing; the row is what insert_listings_batch
\* stores
Process ==
  /\ stage = "process"
  /\ row' = Some(ProcessListing(AsRaw(listing[1])))
  /\ stage' = "done"
  /\ UNCHANGED <<page, car_url, scripts_done, car_data, after_ld, listing>>
  /\ UNCHANGED <<collector_vars, match_vars, store_vars>>

NextExtract ==
  \/ JsonLdScript
  \/ CarId
  \/ EmbeddedUpdate
  \/ Validate
  \/ Format
  \/ Process

SpecExtract == InitExtract /\ [][NextExtract]_vars

\* The stages agree with the composed function the detail phase of Spec uses.
StagesAgree ==
  stage = "done" => listing = ExtractListing(page, car_url)

(***************************************************************************)
(* Claims about the detail page, under SpecExtract                         *)
(***************************************************************************)
MergedFields ==
  {"brand", "model", "year", "mileage", "fuel_type", "transmission",
   "description", "price", "estimated_price"}

\* The field holds a non-empty value that is not the "Unknown" default
Populated(d, field) ==
  /\ Truthy(d, field)
  /\ field \notin NumericFields => Get(d, field) # Some("Unknown")

EmbeddedMerged == stage \in {"validate", "format", "process", "done"}

\* C7: first-non-null-wins per field: a field the structured metadata
\* (JSON-LD) strategy has populated with a non-empty value keeps that value
\* when the later strategies (embedded JSON, patterns over the HTML) are
\* merged into the draft.
C7_FirstNonNullWins ==
  (after_ld # None /\ EmbeddedMerged) =>
    \A field \in MergedFields :
      Populated(after_ld[1], field) =>
        Get(car_data, field) = Get(after_ld[1], field)

\* The JSON prices of the page, in hundredths of the currency unit (cents)
RECURSIVE OfferPrices(_, _)
OfferPrices(prices, i) ==
  IF i > Len(prices) THEN {}
  ELSE (IF prices[i] # None THEN {prices[i][1]} ELSE {})
       \cup OfferPrices(prices, i + 1)
ScriptPrices(data) ==
  (IF data.price # None THEN {data.price[1]} ELSE {})
  \cup (IF data.offers # None THEN OfferPrices(data.offers[1].prices, 1)
        ELSE {})
PagePrices(pg) ==
  UNION {ScriptPrices(pg.ld[i]) : i \in 1 .. Len(pg.ld)}
  \cup (IF pg.state # None /\ pg.state[1].estimated # None
        THEN {pg.state[1].estimated[1]} ELSE {})

\* C8: the stored price and estimated_price of a row are integer cents: a
\* page price of P whole currency units is stored as 100 * P.
C8_StoredInCents ==
  (stage = "done" /\ row # None) =>
    \A field \in {"price", "estimated_price"} :
      row[1][field] # None =>
        \E c \in PagePrices(page) :
          row[1][field][1] = CentsPerEuro * IntFloat(c)

(***************************************************************************)
(* SpecMatch: one listing against one user                                 *)
(***************************************************************************)
InitMatch ==
  /\ m_listing \in MatchListings
  /\ m_user \in MatchUsers
  /\ m_zipcodes \in MatchZipcodes
  /\ m_result = None
  /\ CollectorOff
  /\ ExtractOff
  /\ StoreOff

\* if self._matches_user_preferences(listing, user, user_zipcodes.get(...))
MatchesUserPreferences ==
  /\ m_listing # None
  /\ m_result = None
  /\ m_result' = Some(_matches_user_preferences(m_listing, m_user, m_zipcodes))
  /\ UNCHANGED <<m_listing, m_user, m_zipcodes>>
  /\ UNCHANGED <<collector_vars, extract_vars, store_vars>>

NextMatch == MatchesUserPreferences

SpecMatch == InitMatch /\ [][NextMatch]_vars

(***************************************************************************)
(* Claims about the matching predicate, under SpecMatch                    *)
(***************************************************************************)
Matched == m_result # None

\* The call got past the price check
PassedPrice == m_result[1].at \notin {"price", "price_error"}

\* p lies in [lo * 100, hi * 100]
InCents(p, lo, hi) ==
  p # None /\ lo * CentsPerEuro <= p[1] /\ p[1] <= hi * CentsPerEuro

\* The bound of a preference with its default: unset is null
BoundUnsetNull(x, d) == IF x = None THEN d ELSE x[1]
\* The bound of a preference with its default: unset is null or 0
BoundUnsetFalsy(x, d) == IF x = None \/ x = Some(0) THEN d ELSE x[1]

\* C9, as stated: a listing passes the price condition iff its price in
\* cents lies in [price_min * 100, price_max * 100], the bounds inclusive,
\* with min = 0 and max = 1,000,000 when the preference is unset (null).
C9_PriceConditionUnsetNull ==
  Matched =>
    (PassedPrice <=>
       InCents(m_listing.price,
               BoundUnsetNull(m_user.price_min, 0),
               BoundUnsetNull(m_user.price_max, DefaultPriceMax)))

\* C9, amended: a listing passes the price condition iff its price in cents
\* lies in [price_min * 100, price_max * 100], the bounds inclusive, with
\* min = 0 and max = 1,000,000 when the preference is null or 0.
PriceCondition ==
  InCents(m_listing.price,
          BoundUnsetFalsy(m_user.price_min, 0),
          BoundUnsetFalsy(m_user.price_max, DefaultPriceMax))
C9_PriceCondition == Matched => (PassedPrice <=> PriceCondition)

\* A price of exactly price_max * 100 has passed the price condition
C9_Witness ==
  /\ Matched
  /\ m_user.price_min = Some(PrefPriceMin)
  /\ m_user.price_max = Some(PrefPriceMax)
  /\ m_listing.price = Some(PrefPriceMax * CentsPerEuro)
  /\ PassedPrice

MileageCondition ==
  /\ m_listing.mileage # None
  /\ 0 <= m_listing.mileage[1]
  /\ m_listing.mileage[1]
       <= BoundUnsetFalsy(m_user.mileage_max, DefaultMileageMax)
YearCondition ==
  \/ m_listing.year = None
  \/ m_user.year_min = None
  \/ YearInt(m_listing.year[1]) >= m_user.year_min[1]
ZipcodeCondition ==
  \/ m_zipcodes = {}
  \/ m_listing.source_zipcode_id = None
  \/ m_listing.source_zipcode_id[1] \in m_zipcodes

MaxLinkCalls == 2
MaxBatch == 2

LinkListingIds == {1, 2}
\* users_result.data, in the order of the query
LinkUserIds == <<1, 2>>

\* The listing dicts and the user rows of the linking runs: listing 1 suits
\* both users, listing 2 the user without preferences only
LinkListing(id) ==
  [price |-> Some(IF id = 1 THEN PrefPriceMin * CentsPerEuro
                  ELSE PrefPriceMax * CentsPerEuro + 1),
   mileage |-> Some(1), year |-> None, source_zipcode_id |-> None]
LinkUser(user_id) ==
  IF user_id = 1
  THEN [price_min |-> Some(PrefPriceMin), price_max |-> Some(PrefPriceMax),
        mileage_max |-> None, year_min |-> None]
  ELSE [price_min |-> None, price_max |-> None, mileage_max |-> None,
        year_min |-> None]

LinkBatches == UNION {[1 .. n -> LinkListingIds] : n \in 0 .. MaxBatch}

\* select('id').eq('user_id', user_id).eq('listing_id', listing_id)
ExistingLinks(table, user_id, listing_id) ==
  {k \in 1 .. Len(table) :
     table[k].user_id = user_id /\ table[k].listing_id = listing_id}

NewLink(user_id, listing_id) ==
  [user_id |-> user_id, listing_id |-> listing_id, status |-> "nouveau"]

\* A faulty variant of _create_user_listing_link, which inserts without
\* looking for the link: C11 must fail with it.
CreateLinkUnchecked(table, user_id, listing_id, outcome) ==
  IF outcome = "ok"
  THEN [table |-> Append(table, NewLink(user_id, listing_id)),
        result |-> ExistingLinks(table, user_id, listing_id) = {}]
  ELSE [table |-> table, result |-> FALSE]
\* db.py _create_user_listing_link; outcome is what the database does:
\* "ok", or the select or the insert raises
_create_user_listing_link(table, user_id, listing_id, outcome) ==
  IF outcome = "select_error" THEN [table |-> table, result |-> FALSE]
  ELSE IF ExistingLinks(table, user_id, listing_id) = {}
  THEN (IF outcome = "insert_error" THEN [table |-> table, result |-> FALSE]
        ELSE [table |-> Append(table, NewLink(user_id, listing_id)),
              result |-> TRUE])
  ELSE [table |-> table, result |-> FALSE]

InitLink ==
  /\ user_listings = << >>
  /\ link_pc = "idle"
  /\ link_batch = << >>
  /\ link_users = << >>
  /\ link_i = 0
  /\ link_j = 0
  /\ linked_count = 0
  /\ link_inserted = 0
  /\ link_returned = None
  /\ link_calls = 0
  /\ link_last = None
  /\ LinkFrameOff

\* The call, up to the loops: the two queries, either of which may raise
\* (return 0), and "if not users_result.data: return 0"
LinkListingsToUsers ==
  /\ link_pc = "idle"
  /\ link_calls < MaxLinkCalls
  /\ link_calls' = link_calls + 1
  /\ link_last' = None
  /\ link_inserted' = 0
  /\ linked_count' = 0
  /\ \E listings \in LinkBatches, users \in {<< >>, LinkUserIds},
        queries \in {"ok", "error"} :
       /\ link_batch' = listings
       /\ link_users' = users
       /\ IF queries = "error" \/ users = << >>
          THEN /\ link_returned' = Some(0)
               /\ UNCHANGED <<link_pc, link_i, link_j>>
          ELSE /\ link_returned' = None
               /\ link_pc' = "loop"
               /\ link_i' = 1
               /\ link_j' = 1
  /\ UNCHANGED user_listings
  /\ UNCHANGED link_frame

\* One iteration of the inner loop: "if self._matches_user_preferences(...):
\* if self._create_user_listing_link(...): linked_count += 1"
LinkPair ==
  /\ link_pc = "loop"
  /\ link_i <= Len(link_batch)
  /\ \E outcome \in {"ok", "select_error", "insert_error"} :
       LET listing_id == link_batch[link_i]
           user_id == link_users[link_j]
           created == _create_user_listing_link(user_listings, user_id,
                                                listing_id, outcome)
       IN  IF _matches_user_preferences(LinkListing(listing_id),
                                        LinkUser(user_id), {}).result
           THEN /\ user_listings' = created.table
                /\ linked_count' =
                     IF created.result THEN linked_count + 1
                     ELSE linked_count
                /\ link_inserted' =
                     link_inserted + Len(created.table) - Len(user_listings)
                /\ link_last' =
                     Some([result |-> created.result,
                           rows |-> Len(created.table) - Len(user_listings)])
           ELSE /\ outcome = "ok"
                /\ UNCHANGED <<user_listings, linked_count, link_inserted,
                               link_last>>
  /\ IF link_j < Len(link_users)
     THEN link_j' = link_j + 1 /\ UNCHANGED link_i
     ELSE link_j' = 1 /\ link_i' = link_i + 1
  /\ UNCHANGED <<link_pc, link_batch, link_users, link_returned, link_calls>>
  /\ UNCHANGED link_frame

\* return linked_count
LinkReturn ==
  /\ link_pc = "loop"
  /\ link_i > Len(link_batch)
  /\ link_returned' = Some(linked_count)
  /\ link_pc' = "idle"
  /\ UNCHANGED <<user_listings, link_batch, link_users, link_i, link_j,
                 linked_count, link_inserted, link_calls, link_last>>
  /\ UNCHANGED link_frame

NextLink ==
  \/ LinkListingsToUsers
  \/ LinkPair
  \/ LinkReturn

SpecLink == InitLink /\ [][NextLink]_vars

\* C11: the link table holds at most one link for each (user, listing) pair;
\* _create_user_listing_link returns true exactly when it inserted a row; the
\* count _link_listings_to_users returns is the number of rows the call
\* inserted.
C11_LinkIdempotent ==
  /\ \A k1, k2 \in 1 .. Len(user_listings) :
       (user_listings[k1].user_id = user_listings[k2].user_id
        /\ user_listings[k1].listing_id = user_listings[k2].listing_id)
         => k1 = k2
  /\ link_last # None =>
       (link_last[1].result <=> link_last[1].rows = 1)
  /\ (link_pc = "idle" /\ link_returned # None) =>
       link_returned[1] = link_inserted

\* A second call has linked the listings of the first call again and has
\* returned 0, the table holding its three links
C11_Witness ==
  /\ link_pc = "idle"
  /\ link_calls = 2
  /\ link_batch = <<1, 2>>
  /\ Len(user_listings) = 3
  /\ link_last # None
  /\ link_returned = Some(0)

(***************************************************************************)
(* db.py: insert_listings_batch                                            *)
(*                                                                         *)
(* A listing of a batch is its id; the URL of a listing is one with its id, *)
(* so the listings table is the set of the ids it holds.                   *)
(***************************************************************************)
\* Calls of insert_listings_batch in a behaviour
MaxInsertCalls == 2

\* One pair of the two loops of _link_listings_to_users, k counting the pairs
RECURSIVE LinkRun(_, _, _, _, _)
LinkRun(table, count, listings, users, k) ==
  IF k >= Len(listings) * Len(users) THEN [table |-> table, count |-> count]
  ELSE LET listing_id == listings[(k \div Len(users)) + 1]
           user_id == users[(k % Len(users)) + 1]
           created ==
             IF _matches_user_preferences(LinkListing(listing_id),
                                          LinkUser(user_id), {}).result
             THEN _create_user_listing_link(table, user_id, listing_id, "ok")
             ELSE [table |-> table, result |-> FALSE]
       IN  LinkRun(created.table,
                   IF created.result THEN count + 1 ELSE count,
                   listings, users, k + 1)

\* db.py _link_listings_to_users, as one call
_link_listings_to_users(table, listings, users, queries) ==
  IF queries = "error" \/ users = << >>
  THEN [table |-> table, count |-> 0]
  ELSE LinkRun(table, 0, listings, users, 0)

\* [listing for listing in listings_data if not any(f['id'] == listing.get('id')
\*  for f in failed_listings)]
successful_listings(listings_data, failed) ==
  LET NotFailed(id) == id \notin Range(failed)
  IN  SelectSeq(listings_data, NotFailed)

\* "if stored_count > 0: linked_count = self._link_listings_to_users(...)"
LinkStored(table, count, listings_data, failed, users, queries) ==
  IF count > 0
  THEN _link_listings_to_users(table, successful_listings(listings_data,
                                                          failed),
                               users, queries)
  ELSE [table |-> table, count |-> 0]

\* The argument of the call at db.py:137, None when the call is not made
HandedToLinking(count, listings_data, failed) ==
  IF count > 0 THEN Some(successful_listings(listings_data, failed))
  ELSE None

InitInsert ==
  /\ listings_table \in {{}, {1}}
  /\ ins_pc = "idle"
  /\ ins_batch = << >>
  /\ ins_i = 0
  /\ stored_count = 0
  /\ failed_listings = << >>
  /\ ins_fallback = FALSE
  /\ ins_attempts = << >>
  /\ ins_returned = None
  /\ ins_calls = 0
  /\ ins_stored = {}
  /\ ins_handed = None
  /\ InsertFrameOff

\* An empty batch: "if not listings_data: return {...0, ...0}"
InsertNothing ==
  /\ ins_pc = "idle"
  /\ ins_calls < MaxInsertCalls
  /\ ins_calls' = ins_calls + 1
  /\ ins_batch' = << >>
  /\ stored_count' = 0
  /\ failed_listings' = << >>
  /\ ins_fallback' = FALSE
  /\ ins_attempts' = << >>
  /\ ins_returned' = Some([stored_count |-> 0, linked_count |-> 0])
  /\ ins_stored' = {}
  /\ ins_handed' = None
  /\ UNCHANGED <<listings_table, ins_pc, ins_i, user_listings>>
  /\ UNCHANGED insert_frame

\* The multi-row insert succeeds (no row of the batch is in the table or
\* twice in the batch), the listings are linked and the call returns
InsertBatch ==
  /\ ins_pc = "idle"
  /\ ins_calls < MaxInsertCalls
  /\ \E listings_data \in LinkBatches \ {<< >>},
        users \in {<< >>, LinkUserIds}, queries \in {"ok", "error"} :
       /\ Range(listings_data) \cap listings_table = {}
       /\ Cardinality(Range(listings_data)) = Len(listings_data)
       /\ ins_batch' = listings_data
       /\ listings_table' = listings_table \cup Range(listings_data)
       /\ stored_count' = Len(listings_data)
       /\ ins_stored' = Range(listings_data)
       /\ ins_handed' = HandedToLinking(Len(listings_data), listings_data,
                                        << >>)
       /\ LET linked == LinkStored(user_listings, Len(listings_data),
                                   listings_data, << >>, users, queries)
          IN  /\ user_listings' = linked.table
              /\ ins_returned' = Some([stored_count |-> Len(listings_data),
                                       linked_count |-> linked.count])
  /\ ins_calls' = ins_calls + 1
  /\ failed_listings' = << >>
  /\ ins_fallback' = FALSE
  /\ ins_attempts' = << >>
  /\ UNCHANGED <<ins_pc, ins_i>>
  /\ UNCHANGED insert_frame

\* The multi-row insert raises: the except clause starts the fallback loop
InsertBatchFails ==
  /\ ins_pc = "idle"
  /\ ins_calls < MaxInsertCalls
  /\ \E listings_data \in LinkBatches \ {<< >>} : ins_batch' = listings_data
  /\ ins_calls' = ins_calls + 1
  /\ stored_count' = 0
  /\ failed_listings' = << >>
  /\ ins_fallback' = TRUE
  /\ ins_attempts' = << >>
  /\ ins_returned' = None
  /\ ins_stored' = {}
  /\ ins_handed' = None
  /\ ins_pc' = "rows"
  /\ ins_i' = 1
  /\ UNCHANGED <<listings_table, user_listings>>
  /\ UNCHANGED insert_frame

\* One iteration of the fallback loop; outcome is what the database does:
\* "ok", or the select or the insert raises
InsertRow ==
  /\ ins_pc = "rows"
  /\ ins_i <= Len(ins_batch)
  /\ \E outcome \in {"ok", "select_error", "insert_error"} :
       LET listing_id == ins_batch[ins_i]
       IN  IF outcome = "select_error"
           THEN /\ failed_listings' = Append(failed_listings, listing_id)
                /\ UNCHANGED <<listings_table, stored_count, ins_stored>>
           ELSE IF listing_id \in listings_table
           THEN \* existing.data: continue
                /\ outcome = "ok"
                /\ UNCHANGED <<listings_table, stored_count, failed_listings,
                               ins_stored>>
           ELSE IF outcome = "insert_error"
           THEN /\ failed_listings' = Append(failed_listings, listing_id)
                /\ UNCHANGED <<listings_table, stored_count, ins_stored>>
           ELSE /\ listings_table' = listings_table \cup {listing_id}
                /\ stored_count' = stored_count + 1
                /\ ins_stored' = ins_stored \cup {listing_id}
                /\ UNCHANGED failed_listings
  /\ ins_attempts' = Append(ins_attempts, ins_i)
  /\ ins_i' = ins_i + 1
  /\ UNCHANGED <<ins_pc, ins_batch, ins_fallback, ins_returned, ins_calls,
                 ins_handed, user_listings>>
  /\ UNCHANGED insert_frame

\* The loop is over: the stored listings are linked and the call returns
InsertReturn ==
  /\ ins_pc = "rows"
  /\ ins_i > Len(ins_batch)
  /\ \E users \in {<< >>, LinkUserIds}, queries \in {"ok", "error"} :
       LET linked == LinkStored(user_listings, stored_count, ins_batch,
                                failed_listings, users, queries)
       IN  /\ user_listings' = linked.table
           /\ ins_returned' = Some([stored_count |-> stored_count,
                                    linked_count |-> linked.count])
  /\ ins_handed' = HandedToLinking(stored_count, ins_batch, failed_listings)
  /\ ins_pc' = "idle"
  /\ UNCHANGED <<listings_table, ins_batch, ins_i, stored_count,
                 failed_listings, ins_fallback, ins_attempts, ins_calls,
                 ins_stored>>
  /\ UNCHANGED insert_frame

NextInsert ==
  \/ InsertNothing
  \/ InsertBatch
  \/ InsertBatchFails
  \/ InsertRow
  \/ InsertReturn

SpecInsert == InitInsert /\ [][NextInsert]_vars

\* C12: when the multi-row insert of N listings fails as a whole, every row
\* is tried on its own in input order, and the call returns a stored count
\* of at most N, with a failure list of N - count entries.
C12_FallbackAccounting ==
  (ins_fallback /\ ins_returned # None) =>
    /\ ins_attempts = [k \in 1 .. Len(ins_batch) |-> k]
    /\ ins_returned[1].stored_count <= Len(ins_batch)
    /\ Len(failed_listings) = Len(ins_batch) - ins_returned[1].stored_count

\* C24: the list insert_listings_batch hands to the linking holds only
\* listings this call stored: a row whose insert failed and a row skipped
\* because its URL is already in the table are left out, and no linking
\* happens when nothing was stored.
C24_OnlyStoredAreLinked ==
  /\ ins_handed # None => Range(ins_handed[1]) \subseteq ins_stored
  /\ (ins_returned # None /\ stored_count = 0) => ins_handed = None

(***************************************************************************)
(* listing_checker.py: the sweeps over the stored listings                 *)
(*                                                                         *)
(* Time is counted in hours.  A row of the listings table is [exists,      *)
(* updated_at, price, price_history]; the database of a check is the       *)
(* record [rows, links, notes] of the listings, user_listings and          *)
(* notifications tables.  Every call of the database may raise; the         *)
(* `outcome` of a handler names the call that raises, or is "ok".          *)
(***************************************************************************)
\* timedelta(hours=6), timedelta(days=7)
linked_check_interval == 6
unlinked_check_interval == 168

\* Sweeps in a behaviour, and hours that pass between them
MaxSweeps == 2
MaxTicks == 1

CheckIds == {1, 2}
StartTime == unlinked_check_interval + 2
\* The stored price of the listings, and another price
StoredPrice == PagePrice \div CentsPerEuro
OtherPrice == StoredPrice - 1

Database(rows, links, notes) ==
  [rows |-> rows, links |-> links, notes |-> notes]

\* A faulty variant of OlderThan, which takes a listing of exactly the
\* interval as due: C16 must fail with it.
NotNewerThan(updated_at, cutoff_time) == updated_at <= cutoff_time
\* .lt('updated_at', cutoff_time.isoformat())
OlderThan(updated_at, cutoff_time) == updated_at < cutoff_time

\* _get_linked_listing_ids: the listing_id of every row, [] when it raises
_get_linked_listing_ids(links, outcome) ==
  IF outcome = "links_error" THEN {}
  ELSE {links[k].listing_id : k \in 1 .. Len(links)}

\* The row of a listing as the query returns it
Selected(rows, id) ==
  [id |-> id, price |-> rows[id].price, exists |-> rows[id].exists,
   updated_at |-> rows[id].updated_at]

\* A faulty variant of DueIds, which takes deleted listings too: C25 must
\* fail with it.
DueWhetherExisting(rows, ids, cutoff_time) ==
  {id \in ids : OlderThan(rows[id].updated_at, cutoff_time)}
\* .eq('exists', True).lt('updated_at', cutoff), and .in_('id', linked_ids)
DueIds(rows, ids, cutoff_time) ==
  {id \in ids : rows[id].exists /\ OlderThan(rows[id].updated_at, cutoff_time)}

\* .order('updated_at', desc=False): the orders the database may return
Ascending(rows, S) ==
  {[k \in 1 .. Len(order) |-> Selected(rows, order[k])] :
     order \in {o \in Orders(S) :
                  \A a, b \in 1 .. Len(o) :
                    a < b => rows[o[a]].updated_at <= rows[o[b]].updated_at}}

\* listing_checker.py _get_listings_to_check: the lists it may return
_get_listings_to_check(rows, links, linked_only, interval, t, outcome) ==
  IF linked_only /\ _get_linked_listing_ids(links, outcome) = {}
  THEN {<< >>}
  ELSE Ascending(rows,
                 DueIds(rows,
                        IF linked_only
                        THEN _get_linked_listing_ids(links, outcome)
                             \cap DOMAIN rows
                        ELSE DOMAIN rows,
                        t - interval))

\* The links of a listing, in the order of the table
LinksOf(links, listing_id) ==
  LET OfListing(r) == r.listing_id = listing_id
  IN  SelectSeq(links, OfListing)

Notification(user_id, type, listing_id, old_price, new_price) ==
  [user_id |-> user_id, type |-> type, listing_id |-> listing_id,
   old_price |-> old_price, new_price |-> new_price]

\* One notification for each row of user_listings of the listing
NotificationsFor(links, type, listing_id, old_price, new_price) ==
  [k \in 1 .. Len(LinksOf(links, listing_id)) |->
     Notification(LinksOf(links, listing_id)[k].user_id, type, listing_id,
                  old_price, new_price)]

\* A faulty variant of _create_deletion_notifications, which notifies the
\* users of every link of the table: C13 must fail with it.
NotifyEveryUser(db, listing_id, outcome) ==
  IF outcome = "notify_error" THEN db
  ELSE [db EXCEPT !.notes =
          @ \o [k \in 1 .. Len(db.links) |->
                  Notification(db.links[k].user_id, "listing_deleted",
                               listing_id, None, None)]]
\* listing_checker.py _create_deletion_notifications
_create_deletion_notifications(db, listing_id, outcome) ==
  IF outcome = "notify_error" THEN db
  ELSE [db EXCEPT !.notes =
          @ \o NotificationsFor(db.links, "listing_deleted", listing_id,
                                None, None)]

\* listing_checker.py _create_price_change_notifications
_create_price_change_notifications(db, listing_id, old_price, new_price, outcome) ==
  IF outcome = "notify_error" THEN db
  ELSE [db EXCEPT !.notes =
          @ \o NotificationsFor(db.links, "price_changed", listing_id,
                                old_price, new_price)]

\* update({'status': 'corbeille', ...}).eq('listing_id', listing['id'])
TrashLinks(links, listing_id) ==
  [k \in 1 .. Len(links) |->
     IF links[k].listing_id = listing_id
     THEN [links[k] EXCEPT !.status = "corbeille"]
     ELSE links[k]]

\* listing_checker.py _handle_listing_deleted
_handle_listing_deleted(db, item, outcome, t) ==
  IF outcome = "listing_error" THEN db
  ELSE IF outcome = "links_error"
  THEN [db EXCEPT !.rows[item.id].exists = FALSE,
                  !.rows[item.id].updated_at = t]
  ELSE _create_deletion_notifications(
         [db EXCEPT !.rows[item.id].exists = FALSE,
                    !.rows[item.id].updated_at = t,
                    !.links = TrashLinks(@, item.id)],
         item.id, outcome)

\* history_entry
HistoryEntry(old_price, new_price) ==
  [old_price |-> old_price, new_price |-> new_price]

\* A faulty variant of _handle_price_change, which records the new price as
\* the old one: C14 must fail with it.
HandlePriceChangeWrongOld(db, item, new_price, outcome, t) ==
  IF outcome \in {"select_error", "update_error"} THEN db
  ELSE _create_price_change_notifications(
         [db EXCEPT !.rows[item.id].price = new_price,
                    !.rows[item.id].price_history =
                       Append(@, HistoryEntry(new_price, new_price)),
                    !.rows[item.id].updated_at = t],
         item.id, item.price, new_price, outcome)
\* A faulty variant of _handle_price_change, which starts the history anew
\* with its entry: C27 must fail with it.
HandlePriceChangeNewHistory(db, item, new_price, outcome, t) ==
  IF outcome \in {"select_error", "update_error"} THEN db
  ELSE _create_price_change_notifications(
         [db EXCEPT !.rows[item.id].price = new_price,
                    !.rows[item.id].price_history =
                       <<HistoryEntry(item.price, new_price)>>,
                    !.rows[item.id].updated_at = t],
         item.id, item.price, new_price, outcome)
\* listing_checker.py _handle_price_change
_handle_price_change(db, item, new_price, outcome, t) ==
  IF outcome \in {"select_error", "update_error"} THEN db
  ELSE _create_price_change_notifications(
         [db EXCEPT !.rows[item.id].price = new_price,
                    !.rows[item.id].price_history =
                       Append(@, HistoryEntry(item.price, new_price)),
                    !.rows[item.id].updated_at = t],
         item.id, item.price, new_price, outcome)

\* A faulty variant of _update_last_checked, which writes nothing: C26 must
\* fail with it.
LeaveUpdatedAt(db, listing_id, outcome, t) == db
\* listing_checker.py _update_last_checked
_update_last_checked(db, listing_id, outcome, t) ==
  IF outcome = "error" THEN db
  ELSE [db EXCEPT !.rows[listing_id].updated_at = t]

\* listing_checker.py _check_existence: False when the request raises
_check_existence(probe) == probe = "exists"

\* listing_checker.py _check_price: None when the request raises or the
\* status is not 200
_check_price(fetched) == IF fetched.ok THEN fetched.price ELSE None

\* A faulty variant of PriceChanged, which takes a missing price or the
\* price 0 for a change: C28 must fail with it.
PriceDiffers(current_price, item) == current_price # item.price
\* if current_price and current_price != listing['price']
PriceChanged(current_price, item) ==
  TruthyN(current_price) /\ current_price # item.price

\* The part of an iteration for a listing that still exists
CheckExisting(db, item, current_price, handler, touch, t) ==
  IF PriceChanged(current_price, item)
  THEN [db |-> _update_last_checked(
                 _handle_price_change(db, item, current_price, handler, t),
                 item.id, touch, t),
        kind |-> "price"]
  ELSE [db |-> _update_last_checked(db, item.id, touch, t),
        kind |-> "active"]

\* One iteration of the loop of _check_listings_batch
CheckOne(db, item, probe, fetched, handler, touch, t) ==
  IF ~_check_existence(probe) /\ item.exists
  THEN [db |-> _handle_listing_deleted(db, item, handler, t),
        kind |-> "deleted"]
  ELSE IF _check_existence(probe)
  THEN CheckExisting(db, item, _check_price(fetched), handler, touch, t)
  ELSE [db |-> _update_last_checked(db, item.id, touch, t),
        kind |-> "gone"]

\* The age of a listing at the start: around the two intervals
CheckAges ==
  {linked_check_interval - 1, linked_check_interval,
   linked_check_interval + 1, unlinked_check_interval,
   unlinked_check_interval + 1}

ListingRow(exists, updated_at) ==
  [exists |-> exists, updated_at |-> updated_at,
   price |-> Some(StoredPrice), price_history |-> << >>]

CheckTables ==
  {[id \in CheckIds |->
      IF id = 1 THEN ListingRow(TRUE, StartTime - age1)
      ELSE ListingRow(exists2, StartTime - age2)] :
     age1 \in CheckAges,
     age2 \in {linked_check_interval + 1, unlinked_check_interval + 1},
     exists2 \in BOOLEAN}

CheckLinkTables ==
  {<< >>, <<NewLink(1, 1)>>, <<NewLink(1, 1), NewLink(2, 1)>>,
   <<NewLink(1, 1), NewLink(2, 2)>>}

\* What the GET of the detail page gives: the request raises, or the page
\* and the price _extract_price_from_html finds in it
Fetches ==
  {[ok |-> FALSE, price |-> None]} \cup
  {[ok |-> TRUE, price |-> p] :
     p \in {None, Some(0), Some(StoredPrice), Some(OtherPrice)}}

HandlerOutcomes(kind) ==
  IF kind = "deleted"
  THEN {"ok", "listing_error", "links_error", "notify_error"}
  ELSE IF kind = "price"
  THEN {"ok", "select_error", "update_error", "notify_error"}
  ELSE {"ok"}

interval_of(type) ==
  IF type = "linked" THEN linked_check_interval ELSE unlinked_check_interval

ZeroResult(type) ==
  [checked |-> 0, existence_changes |-> 0, price_changes |-> 0, errors |-> 0,
   type |-> type]

InitCheck ==
  /\ listing_rows \in CheckTables
  /\ user_listings \in CheckLinkTables
  /\ notifications = << >>
  /\ now = StartTime
  /\ chk_pc = "idle"
  /\ check_type = ""
  /\ chk_listings = << >>
  /\ chk_k = 0
  /\ existence_changes = 0
  /\ price_changes = 0
  /\ errors = 0
  /\ chk_failed = 0
  /\ chk_probed = << >>
  /\ chk_selected = None
  /\ chk_last = None
  /\ chk_returned = None
  /\ chk_sweeps = 0
  /\ CheckFrameOff

\* An hour passes between two sweeps
Tick ==
  /\ chk_pc = "idle"
  /\ now < StartTime + MaxTicks
  /\ now' = now + 1
  /\ UNCHANGED <<listing_rows, notifications, chk_pc, check_type,
                 chk_listings, chk_k, existence_changes, price_changes,
                 errors, chk_failed, chk_probed, chk_selected, chk_last,
                 chk_returned, chk_sweeps, user_listings>>
  /\ UNCHANGED check_frame

\* check_linked_listings / check_unlinked_listings, up to the loop of
\* _check_listings_batch.  The query may raise ("query_error"): the
\* exception leaves the sweep.
StartSweep ==
  /\ chk_pc = "idle"
  /\ chk_sweeps < MaxSweeps
  /\ chk_sweeps' = chk_sweeps + 1
  /\ \E type \in {"linked", "unlinked"},
        outcome \in {"ok", "links_error", "query_error"} :
       \E listings \in _get_listings_to_check(listing_rows, user_listings,
                                              type = "linked",
                                              interval_of(type), now,
                                              outcome) :
         /\ outcome = "links_error" => type = "linked"
         /\ check_type' = type
         /\ chk_selected' = Some([rows |-> listing_rows,
                                  links |-> user_listings, t |-> now])
         /\ IF outcome = "query_error"
               /\ ~(type = "linked"
                    /\ _get_linked_listing_ids(user_listings, outcome) = {})
            THEN /\ chk_listings' = << >>
                 /\ chk_returned' = None
                 /\ UNCHANGED <<chk_pc, chk_k>>
            ELSE IF listings = << >>
            THEN /\ chk_listings' = << >>
                 /\ chk_returned' = Some(ZeroResult(type))
                 /\ UNCHANGED <<chk_pc, chk_k>>
            ELSE /\ chk_listings' = listings
                 /\ chk_returned' = None
                 /\ chk_pc' = "sweep"
                 /\ chk_k' = 1
  /\ existence_changes' = 0
  /\ price_changes' = 0
  /\ errors' = 0
  /\ chk_failed' = 0
  /\ chk_probed' = << >>
  /\ chk_last' = None
  /\ UNCHANGED <<listing_rows, notifications, now, user_listings>>
  /\ UNCHANGED check_frame

\* One iteration of "for listing in batch".  No call of the try block lets
\* an exception out, so the except clause that counts errors never runs.
CheckListing ==
  /\ chk_pc = "sweep"
  /\ chk_k <= Len(chk_listings)
  /\ \E probe \in {"exists", "absent", "error"}, fetched \in Fetches,
        touch \in {"ok", "error"},
        handler \in HandlerOutcomes("deleted") \cup HandlerOutcomes("price") :
       LET item == chk_listings[chk_k]
           checked == CheckOne(Database(listing_rows, user_listings,
                                        notifications),
                               item, probe, fetched, handler, touch, now)
       IN  /\ handler \in HandlerOutcomes(checked.kind)
           /\ probe # "exists" => fetched = [ok |-> TRUE, price |-> None]
           /\ checked.kind = "deleted" => touch = "ok"
           /\ listing_rows' = checked.db.rows
           /\ user_listings' = checked.db.links
           /\ notifications' = checked.db.notes
           /\ existence_changes' =
                IF checked.kind = "deleted" THEN existence_changes + 1
                ELSE existence_changes
           /\ price_changes' =
                IF checked.kind = "price" THEN price_changes + 1
                ELSE price_changes
           /\ chk_failed' =
                IF probe = "error" \/ ~fetched.ok \/ handler # "ok"
                   \/ touch # "ok"
                THEN chk_failed + 1 ELSE chk_failed
           /\ chk_probed' = Append(chk_probed, item.id)
           /\ chk_last' =
                Some([id |-> item.id, kind |-> checked.kind,
                      ok |-> handler = "ok" /\ touch = "ok",
                      current_price |-> _check_price(fetched),
                      row |-> listing_rows[item.id],
                      links |-> user_listings,
                      notes |-> Len(notifications), t |-> now])
  /\ chk_k' = chk_k + 1
  /\ UNCHANGED <<now, chk_pc, check_type, chk_listings, errors, chk_selected,
                 chk_returned, chk_sweeps>>
  /\ UNCHANGED check_frame

\* The loop is over: _check_listings_batch returns
CheckReturn ==
  /\ chk_pc = "sweep"
  /\ chk_k > Len(chk_listings)
  /\ chk_returned' =
       Some([checked |-> Len(chk_listings),
             existence_changes |-> existence_changes,
             price_changes |-> price_changes, errors |-> errors,
             type |-> check_type])
  /\ chk_pc' = "idle"
  /\ UNCHANGED <<listing_rows, notifications, now, check_type, chk_listings,
                 chk_k, existence_changes, price_changes, errors, chk_failed,
                 chk_probed, chk_selected, chk_last, chk_sweeps,
                 user_listings>>
  /\ UNCHANGED check_frame

NextCheck ==
  \/ Tick
  \/ StartSweep
  \/ CheckListing
  \/ CheckReturn

SpecCheck == InitCheck /\ [][NextCheck]_vars

(***************************************************************************)
(* Claims about the sweeps, under SpecCheck                                *)
(***************************************************************************)
\* The notifications the last check has created
AddedNotes ==
  SubSeq(notifications, chk_last[1].notes + 1, Len(notifications))

\* The users that had a link to the listing of the last check
LinkedUsers ==
  {chk_last[1].links[k].user_id :
     k \in {j \in 1 .. Len(chk_last[1].links) :
              chk_last[1].links[j].listing_id = chk_last[1].id}}

\* The last check has created one notification for each user linked to its
\* listing - no more, none for other users
OnePerLinkedUser(type, old_price, new_price) ==
  /\ \A k \in 1 .. Len(AddedNotes) :
       /\ AddedNotes[k] = Notification(AddedNotes[k].user_id, type,
                                       chk_last[1].id, old_price, new_price)
       /\ AddedNotes[k].user_id \in LinkedUsers
  /\ \A user_id \in LinkedUsers :
       Cardinality({k \in 1 .. Len(AddedNotes) :
                      AddedNotes[k].user_id = user_id}) = 1

\* The last check was of this kind and its calls of the database succeeded
LastCheck(kinds) ==
  chk_last # None /\ chk_last[1].kind \in kinds /\ chk_last[1].ok

\* C13: when the existence probe of a due listing with exists = true
\* reports absence, the check (its calls of the database succeeding) sets
\* exists to false, moves every link of the listing to the trashed status
\* and creates exactly one listing_deleted notification for each user that
\* was linked to it, none for other users.
C13_DeletionTransition ==
  LastCheck({"deleted"}) =>
    /\ chk_last[1].row.exists
    /\ ~listing_rows[chk_last[1].id].exists
    /\ \A k \in 1 .. Len(user_listings) :
         user_listings[k].listing_id = chk_last[1].id
           => user_listings[k].status = "corbeille"
    /\ OnePerLinkedUser("listing_deleted", None, None)

\* The listing of one user was deleted, the link of another user to another
\* listing staying as it was
C13_Witness ==
  /\ LastCheck({"deleted"})
  /\ Len(AddedNotes) = 1
  /\ Len(user_listings) = 2
  /\ \E k \in 1 .. Len(user_listings) : user_listings[k].status = "nouveau"

\* C14: when the re-extracted price of a still-existing listing differs from
\* the stored price, the check (its calls of the database succeeding)
\* appends exactly one price_history entry with the stored price as
\* old_price and the extracted price as new_price, stores the extracted
\* price and creates one price_changed notification per linked user; and
\* updated_at of every listing found still existing is advanced to now,
\* whether or not the price changed.
C14_PriceChangeTransition ==
  /\ LastCheck({"price"}) =>
       /\ chk_last[1].current_price # chk_last[1].row.price
       /\ listing_rows[chk_last[1].id].price_history =
            Append(chk_last[1].row.price_history,
                   HistoryEntry(chk_last[1].row.price,
                                chk_last[1].current_price))
       /\ listing_rows[chk_last[1].id].price = chk_last[1].current_price
       /\ OnePerLinkedUser("price_changed", chk_last[1].row.price,
                           chk_last[1].current_price)
  /\ LastCheck({"price", "active"}) =>
       listing_rows[chk_last[1].id].updated_at = chk_last[1].t
  /\ (LastCheck({"active"}) /\ TruthyN(chk_last[1].current_price)) =>
       chk_last[1].current_price = chk_last[1].row.price

\* The price of a listing of two linked users has changed
C14_Witness ==
  /\ LastCheck({"price"})
  /\ Len(AddedNotes) = 2
  /\ Len(listing_rows[chk_last[1].id].price_history) = 1
  /\ chk_last[1].row.updated_at < chk_last[1].t

\* C15: a failure while checking one listing never aborts the batch: every
\* listing of the selection is checked, and the errors field of the result
\* is the number of listings whose check failed (an exception in the probe,
\* the price fetch or the persistence calls).
C15_ErrorsCountFailures ==
  (chk_returned # None /\ chk_selected # None) =>
    /\ Len(chk_probed) = chk_returned[1].checked
    /\ chk_returned[1].errors = chk_failed

\* C16: a sweep probes only listings that, at selection time, have
\* exists = true and updated_at strictly older than now minus the interval
\* of the class, oldest first; the linked sweep probes only listings whose
\* id occurs in the link table, and nothing when the link table is empty.
C16_Selection ==
  chk_selected # None =>
    /\ \A k \in 1 .. Len(chk_probed) :
         /\ chk_selected[1].rows[chk_probed[k]].exists
         /\ chk_selected[1].rows[chk_probed[k]].updated_at
              < chk_selected[1].t - interval_of(check_type)
         /\ check_type = "linked" =>
              \E j \in 1 .. Len(chk_selected[1].links) :
                chk_selected[1].links[j].listing_id = chk_probed[k]
    /\ \A a, b \in 1 .. Len(chk_probed) :
         a < b => chk_selected[1].rows[chk_probed[a]].updated_at
                    <= chk_selected[1].rows[chk_probed[b]].updated_at
    /\ (check_type = "linked" /\ chk_selected[1].links = << >>) =>
         chk_probed = << >>

\* A linked sweep has probed two due listings, the older one first, while a
\* listing of exactly the interval was left alone by an earlier sweep
C16_Witness ==
  /\ chk_selected # None
  /\ check_type = "linked"
  /\ Len(chk_probed) = 2
  /\ chk_selected[1].rows[chk_probed[1]].updated_at
       < chk_selected[1].rows[chk_probed[2]].updated_at
  /\ chk_sweeps = 2

(***************************************************************************)
(* listing_checker.py: _extract_price_from_html, against the Extractor     *)
(*                                                                         *)
(* The re-check reads two more things of a page than the Extractor does:   *)
(*   state_price  listing.price of window.__INITIAL_STATE__, a JSON number *)
(*                (None when the key or the state is absent)               *)
(*   euro         the first amount of the document followed by the euro    *)
(*                sign, its separators removed (None when there is none)   *)
(***************************************************************************)
\* An amount of the text that is no price of the car (a monthly rate)
EuroRate == 250

RecheckPages ==
  [page : DetailPages,
   state_price : {None, Some(PagePrice)},
   euro : {None, Some(PagePrice \div CentsPerEuro), Some(EuroRate)}]

\* Method 1: the scripts of type Car, from position i on.  offers given as a
\* list has no .get: the AttributeError ends the whole extraction with None.
RECURSIVE CarOfferPrice(_, _)
CarOfferPrice(ld, i) ==
  IF i > Len(ld) THEN [done |-> FALSE, price |-> None]
  ELSE IF ld[i].type = "Car" /\ ld[i].offers # None
  THEN (IF ld[i].offers[1].kind = "list"
        THEN [done |-> TRUE, price |-> None]
        ELSE IF TruthyN(ld[i].offers[1].prices[1])
        THEN [done |-> TRUE,
              price |-> Some(IntFloat(ld[i].offers[1].prices[1][1]))]
        ELSE CarOfferPrice(ld, i + 1))
  ELSE CarOfferPrice(ld, i + 1)

\* Method 2 (listing.price of the state), then method 3 (the euro pattern)
StateOrEuroPrice(rp) ==
  IF rp.page.state # None /\ rp.state_price # None
  THEN Some(IntFloat(rp.state_price[1]))
  ELSE rp.euro

\* listing_checker.py _extract_price_from_html
_extract_price_from_html(rp) ==
  IF CarOfferPrice(rp.page.ld, 1).done
  THEN CarOfferPrice(rp.page.ld, 1).price
  ELSE StateOrEuroPrice(rp)

\* The URL of the page: one with an id
RecheckUrl == NumKnown + 1

\* The row the run stores for the page, None when the page is rejected
StoredRow(pg) ==
  IF ExtractListing(pg, RecheckUrl) = None THEN None
  ELSE Some(ProcessListing(AsRaw(ExtractListing(pg, RecheckUrl)[1])))

InitRecheck ==
  /\ rc_pc = "fetched"
  /\ rc_page \in RecheckPages
  /\ rc_row = None
  /\ rc_current = None
  /\ RecheckFrameOff

\* The run scrapes, processes and stores the page
StorePage ==
  /\ rc_pc = "fetched"
  /\ rc_row' = StoredRow(rc_page.page)
  /\ rc_pc' = "stored"
  /\ UNCHANGED <<rc_page, rc_current>>
  /\ UNCHANGED recheck_frame

\* A later sweep fetches the unchanged page: current_price = _check_price(...)
RecheckPage ==
  /\ rc_pc = "stored"
  /\ rc_row # None
  /\ rc_current' = _extract_price_from_html(rc_page)
  /\ rc_pc' = "rechecked"
  /\ UNCHANGED <<rc_page, rc_row>>
  /\ UNCHANGED recheck_frame

NextRecheck ==
  \/ StorePage
  \/ RecheckPage

SpecRecheck == InitRecheck /\ [][NextRecheck]_vars

\* C17: the price the re-check extracts from a page equals the price the
\* Extractor extracted from the same page, so re-checking a listing whose
\* page has not changed never produces a price-changed transition.
C17_SameCascade ==
  rc_pc = "rechecked" =>
    /\ rc_current = rc_row[1].price
    /\ ~PriceChanged(rc_current, rc_row[1])

(***************************************************************************)
(* main.py: AutoscoutOrchestrator.run                                      *)
(*                                                                         *)
(* One call of run(), step by step.  The detail phase is followed URL by   *)
(* URL; the URL collection before it catches its own errors (scraper.py    *)
(* 95-140) and hands over the URLs gathered so far.  An exception that     *)
(* escapes a step inside the try of run() reaches the handler at 118-120.  *)
(***************************************************************************)
MaxRunUrls == 3

\* Mutant: the handler only logs
SendNoErrorReport(reports) == reports

\* main.py _send_error_report: one message handed to the notifier, whose
\* send_message returns False instead of raising
_send_error_report(reports) == reports + 1

\* The steps of the try block an exception can escape from
RaisingSteps == {"scraping", "scraped", "processed", "stats"}

InitRun ==
  /\ run_pc = "start"
  /\ run_urls \in 0 .. MaxRunUrls
  /\ run_details = 0
  /\ run_scraped = 0
  /\ run_processed = None
  /\ run_insert_calls = 0
  /\ run_persisted = 0
  /\ run_error_reports = 0
  /\ run_final_reports = 0
  /\ run_raised = None
  /\ run_maintenance = None
  /\ RunFrameOff

\* Step 1, _run_maintenance_checks: a failure is logged, never re-raised
RunMaintenanceChecks ==
  /\ run_pc = "start"
  /\ \E outcome \in {"ok", "failed"} : run_maintenance' = Some(outcome)
  /\ run_pc' = "scraping"
  /\ UNCHANGED <<run_urls, run_details, run_scraped, run_processed,
                 run_insert_calls, run_persisted, run_error_reports,
                 run_final_reports, run_raised>>
  /\ UNCHANGED run_frame

\* scrape_all_listings, one iteration of the detail loop: the listing is
\* appended when _scrape_car_detail returns one
RunScrapeDetail ==
  /\ run_pc = "scraping"
  /\ run_details < run_urls
  /\ run_details' = run_details + 1
  /\ \E got \in BOOLEAN :
       run_scraped' = IF got THEN run_scraped + 1 ELSE run_scraped
  /\ UNCHANGED <<run_pc, run_urls, run_processed, run_insert_calls,
                 run_persisted, run_error_reports, run_final_reports,
                 run_raised, run_maintenance>>
  /\ UNCHANGED run_frame

\* scrape_all_listings returns
RunScrapeReturn ==
  /\ run_pc = "scraping"
  /\ run_details = run_urls
  /\ run_pc' = "scraped"
  /\ UNCHANGED <<run_urls, run_details, run_scraped, run_processed,
                 run_insert_calls, run_persisted, run_error_reports,
                 run_final_reports, run_raised, run_maintenance>>
  /\ UNCHANGED run_frame

\* process_listings_batch: a listing that fails is logged and left out
RunProcess ==
  /\ run_pc = "scraped"
  /\ run_scraped > 0
  /\ \E n \in 0 .. run_scraped : run_processed' = Some(n)
  /\ run_pc' = "processed"
  /\ UNCHANGED <<run_urls, run_details, run_scraped, run_insert_calls,
                 run_persisted, run_error_reports, run_final_reports,
                 run_raised, run_maintenance>>
  /\ UNCHANGED run_frame

\* Nothing was scraped: "No listings found to process"
RunNothingScraped ==
  /\ run_pc = "scraped"
  /\ run_scraped = 0
  /\ run_pc' = "stats"
  /\ UNCHANGED <<run_urls, run_details, run_scraped, run_processed,
                 run_insert_calls, run_persisted, run_error_reports,
                 run_final_reports, run_raised, run_maintenance>>
  /\ UNCHANGED run_frame

\* insert_listings_batch(processed_listings): stored_count rows persisted
RunInsert ==
  /\ run_pc = "processed"
  /\ run_processed[1] > 0
  /\ run_insert_calls' = run_insert_calls + 1
  /\ \E stored \in 0 .. run_processed[1] :
       run_persisted' = run_persisted + stored
  /\ run_pc' = "stats"
  /\ UNCHANGED <<run_urls, run_details, run_scraped, run_processed,
                 run_error_reports, run_final_reports, run_raised,
                 run_maintenance>>
  /\ UNCHANGED run_frame

\* "No listings to insert after processing"
RunNothingProcessed ==
  /\ run_pc = "processed"
  /\ run_processed[1] = 0
  /\ run_pc' = "stats"
  /\ UNCHANGED <<run_urls, run_details, run_scraped, run_processed,
                 run_insert_calls, run_persisted, run_error_reports,
                 run_final_reports, run_raised, run_maintenance>>
  /\ UNCHANGED run_frame

\* The statistics and _send_final_report; run() returns
RunFinalReport ==
  /\ run_pc = "stats"
  /\ run_final_reports' = run_final_reports + 1
  /\ run_pc' = "done"
  /\ UNCHANGED <<run_urls, run_details, run_scraped, run_processed,
                 run_insert_calls, run_persisted, run_error_reports,
                 run_raised, run_maintenance>>
  /\ UNCHANGED run_frame

\* An exception escapes the current step: except Exception at 118-120 logs
\* it and calls _send_error_report; run() returns and main() ends
RunRaise ==
  /\ run_pc \in RaisingSteps
  /\ run_raised' = Some(run_pc)
  /\ run_error_reports' = _send_error_report(run_error_reports)
  /\ run_pc' = "done"
  /\ UNCHANGED <<run_urls, run_details, run_scraped, run_processed,
                 run_insert_calls, run_persisted, run_final_reports,
                 run_maintenance>>
  /\ UNCHANGED run_frame

NextRun ==
  \/ RunMaintenanceChecks
  \/ RunScrapeDetail
  \/ RunScrapeReturn
  \/ RunProcess
  \/ RunNothingScraped
  \/ RunInsert
  \/ RunNothingProcessed
  \/ RunFinalReport
  \/ RunRaise

SpecRun == InitRun /\ [][NextRun]_vars

\* An exception escaped a step before insert_listings_batch was called
RaisedBeforeInsert == run_raised # None /\ run_insert_calls = 0

\* C18: in one run insert_listings_batch is called at most once, and only
\* after every candidate URL has been detail-scraped and the batch has been
\* processed; when an exception escapes a step before that call, no scraped
\* listing is persisted, one error report is handed to the notifier, no
\* final report follows and the run ends without starting over.
C18_InsertAtTheEnd ==
  /\ run_insert_calls <= 1
  /\ run_insert_calls = 1 =>
       /\ run_details = run_urls
       /\ run_processed # None
       /\ run_pc \in {"stats", "done"}
  /\ RaisedBeforeInsert =>
       /\ run_persisted = 0
       /\ run_error_reports = 1
       /\ run_final_reports = 0
       /\ run_pc = "done"
       /\ ~ENABLED NextRun

\* C18 witness: listings were scraped and processed, the exception escaped
\* just before the insert, and the run is over
C18_Witness ==
  /\ run_raised = Some("processed")
  /\ run_processed # None
  /\ run_processed[1] > 0
  /\ run_insert_calls = 0
  /\ run_error_reports = 1

(***************************************************************************)
(* The fuel type and the transmission of one listing, through              *)
(* AutoscoutScraper._format_listing and DataProcessor._format_listing_data *)
(***************************************************************************)
\* Raw fuel values: the aliases, the enum values, other spellings, other words
FuelInputs ==
  {"essence", "gasoline", "petrol", "benzine", "b", "diesel", "d",
   "electric", "electrique", "elektro", "e", "hybrid", "hybride", "h",
   "lpg", "gpl", "l", "cng", "gnc", "c", "gas", "Gasoline", "Diesel",
   "Electric", "Hybrid", "Other", "Unknown", "Essence", " Diesel ",
   "HYBRID", "Hybride", "hydrogen", "xyz", "", " "}

\* Raw transmission values, likewise
TransmissionInputs ==
  {"manual", "manuelle", "automatic", "automatique", "semi-automatic",
   "semi-automatique", "semi", "Manual", "Automatic",
   "Semi-automatic", "Unknown", "Automatique", " Manual ",
   "SEMI-AUTOMATIC", "cvt", "", " "}

InitNormalize ==
  /\ nz_pc = "raw"
  /\ nz_fuel_raw \in FuelInputs
  /\ nz_transmission_raw \in TransmissionInputs
  /\ nz_fuel_type = nz_fuel_raw
  /\ nz_transmission = nz_transmission_raw
  /\ nz_scraped = FALSE
  /\ NormalizeFrameOff

\* scraper.py _format_listing: both fields through the scraper's normalizers
ScraperNormalize ==
  /\ nz_pc = "raw"
  /\ nz_fuel_type' = scraper_format_fuel_type(Some(nz_fuel_type))
  /\ nz_transmission' = scraper_format_transmission(Some(nz_transmission))
  /\ nz_scraped' = TRUE
  /\ nz_pc' = "scraped"
  /\ UNCHANGED <<nz_fuel_raw, nz_transmission_raw>>
  /\ UNCHANGED normalize_frame

\* data_processor.py _format_listing_data, on the scraper's listing or on a
\* raw listing handed to process_listings_batch directly
ProcessorNormalize ==
  /\ nz_pc \in {"raw", "scraped"}
  /\ nz_fuel_type' = dp_format_fuel_type(nz_fuel_type)
  /\ nz_transmission' = dp_format_transmission(nz_transmission)
  /\ nz_pc' = "processed"
  /\ UNCHANGED <<nz_fuel_raw, nz_transmission_raw, nz_scraped>>
  /\ UNCHANGED normalize_frame

NextNormalize ==
  \/ ScraperNormalize
  \/ ProcessorNormalize

SpecNormalize == InitNormalize /\ [][NextNormalize]_vars

\* The documented fuel aliases of a canonical value
FuelAliases(canonical) ==
  CASE canonical = "Gasoline" ->
         {"essence", "gasoline", "petrol", "benzine", "b"}
    [] canonical = "Diesel" -> {"diesel", "d"}
    [] canonical = "Electric" -> {"electric", "electrique", "elektro", "e"}
    [] canonical = "Hybrid" -> {"hybrid", "hybride", "h"}
    [] canonical = "Other" -> {"lpg", "gpl", "l", "cng", "gnc", "c", "gas"}
    [] OTHER -> {}

\* The documented transmission aliases of a canonical value
TransmissionAliases(canonical) ==
  CASE canonical = "Manual" -> {"manual", "manuelle"}
    [] canonical = "Automatic" -> {"automatic", "automatique"}
    [] canonical = "Semi-automatic" ->
         {"semi-automatic", "semi-automatique", "semi"}
    [] OTHER -> {}

\* The canonical values a trimmed, lower-cased input is an alias of
AliasTargets(canonicals, trimmed) ==
  {c \in canonicals :
     \/ \E a \in FuelAliases(c) : Chars(a) = trimmed
     \/ \E a \in TransmissionAliases(c) : Chars(a) = trimmed}

\* The canonical values the input equals when case is ignored
ExactTargets(canonicals, trimmed) ==
  {c \in canonicals : StripLower(c) = trimmed}

\* Alias, then exact match, then Unknown
Documented(canonicals, raw) ==
  IF AliasTargets(canonicals, StripLower(raw)) # {}
  THEN CHOOSE c \in AliasTargets(canonicals, StripLower(raw)) : TRUE
  ELSE IF ExactTargets(canonicals, StripLower(raw)) # {}
  THEN CHOOSE c \in ExactTargets(canonicals, StripLower(raw)) : TRUE
  ELSE "Unknown"

FuelCanonicals ==
  {"Gasoline", "Diesel", "Electric", "Hybrid", "Other", "Unknown"}
TransmissionCanonicals == {"Manual", "Automatic", "Semi-automatic", "Unknown"}

\* C19: the fuel type a listing ends up with, after the scraper's and then
\* the data processor's normalizer, is the canonical value of the alias the
\* trimmed, lower-cased input is, else the canonical value the input equals
\* when case is ignored, else Unknown.
C19_FuelNormalized ==
  (nz_pc = "processed" /\ nz_scraped) =>
    nz_fuel_type = Documented(FuelCanonicals, nz_fuel_raw)

\* C20: the scraper's normalizer and the data processor's normalizer both
\* map every transmission alias to its canonical value, leave each of
\* Manual, Automatic, Semi-automatic, Unknown as it is, and return Unknown
\* for every other input.
C20_TransmissionNormalized ==
  nz_pc \in {"scraped", "processed"} =>
    nz_transmission = Documented(TransmissionCanonicals, nz_transmission_raw)

(***************************************************************************)
(* data_processor.py: _parse_numeric on every kind of value                *)
(***************************************************************************)
MaxAbs == 5
MaxTextLen == 3

\* The characters of the strings tried: digits, a blank, a letter, a sign
ParseAlphabet == {"0", "2", "5", " ", "k", "-"}

ParseTexts == UNION {[1 .. n -> ParseAlphabet] : n \in 0 .. MaxTextLen}

\* Ints, floats by halves, strings, None
NumericInputs ==
  {PyNone}
    \cup {PyInt(n) : n \in (-MaxAbs) .. MaxAbs}
    \cup {PyFloat(50 * n) : n \in (-2 * MaxAbs) .. (2 * MaxAbs)}
    \cup {PyStr(cs) : cs \in ParseTexts}

InitParse ==
  /\ pn_pc = "given"
  /\ pn_value \in NumericInputs
  /\ pn_result = None
  /\ ParseFrameOff

ParseNumeric ==
  /\ pn_pc = "given"
  /\ pn_result' = _parse_numeric(pn_value)
  /\ pn_pc' = "parsed"
  /\ UNCHANGED pn_value
  /\ UNCHANGED parse_frame

NextParse == ParseNumeric

SpecParse == InitParse /\ [][NextParse]_vars

\* The integer the input stands for: the truncated number, or the digits of
\* the string read as one number; None for a string without digits
ParsedInteger(value) ==
  CASE value.type = "int" -> Some(value.int)
    [] value.type = "float" -> Some(IntFloat(value.hundredths))
    [] value.type = "str" -> DigitsOrNone(value.chars)
    [] OTHER -> None

\* C21: parse_numeric returns null or a strictly positive integer: the
\* truncated number or the concatenated digits of the string when that is
\* positive, null otherwise (so "0" and -5 give null).
C21_NullOrPositive ==
  pn_pc = "parsed" =>
    /\ pn_result = None \/ pn_result[1] > 0
    /\ pn_result =
         IF ParsedInteger(pn_value) # None /\ ParsedInteger(pn_value)[1] > 0
         THEN ParsedInteger(pn_value) ELSE None

(***************************************************************************)
(* The image URLs of a listing: scraper.py _extract_image_info and the     *)
(* embedded state, then data_processor.py _parse_image_urls                *)
(*                                                                         *)
(* An image value is None, a str, or a list whose items are strs or dicts  *)
(* (url: the value under 'url', None when the dict has no such key).       *)
(***************************************************************************)
MaxImages == 3

PyDict(url) == [type |-> "dict", url |-> url]
PyList(items) == [type |-> "list", items |-> items]

\* Three URLs, the third one of a page, not of an image
ImageA == <<"a", ".", "j", "p", "g">>
ImageB == <<"b", ".", "p", "n", "g">>
PageC == <<"c", ".", "h", "t", "m">>

ImageItems ==
  {PyStr(u) : u \in {ImageA, ImageB, PageC}}
    \cup {PyDict(u) : u \in {Some(ImageA), Some(ImageB), None}}

ImageValues ==
  {PyNone, PyStr(ImageA), PyStr(PageC)}
    \cup {PyList(items) :
            items \in UNION {[1 .. n -> ImageItems] : n \in 0 .. MaxImages}}

\* ['.webp', '.jpg', '.jpeg', '.png']
ImageExtensions ==
  {<<".", "w", "e", "b", "p">>, <<".", "j", "p", "g">>,
   <<".", "j", "p", "e", "g">>, <<".", "p", "n", "g">>}

\* any(ext in img for ext in [...])
HasImageExtension(url) == \E ext \in ImageExtensions : Contains(ext, url)

\* if isinstance(images, str): images = [images]
AsItems(value) ==
  CASE value.type = "str" -> <<value>>
    [] value.type = "list" -> value.items
    [] OTHER -> << >>

\* isinstance(img, str) and any(ext in img ...)
IsImageString(item) == item.type = "str" /\ HasImageExtension(item.chars)

\* Remove duplicates while preserving order
RECURSIVE Unique(_)
Unique(urls) ==
  IF urls = << >> THEN << >>
  ELSE IF \E i \in 1 .. (Len(urls) - 1) : urls[i] = urls[Len(urls)]
  THEN Unique(SubSeq(urls, 1, Len(urls) - 1))
  ELSE Append(Unique(SubSeq(urls, 1, Len(urls) - 1)), urls[Len(urls)])

UrlsOf(items) == [i \in DOMAIN items |-> items[i].chars]

\* scraper.py _extract_image_info: image_url, None when the key is not set
_extract_image_info(images) ==
  IF Unique(UrlsOf(SelectSeq(AsItems(images), IsImageString))) = << >>
  THEN None
  ELSE Some(PyList([i \in DOMAIN Unique(UrlsOf(SelectSeq(AsItems(images),
                                                         IsImageString))) |->
                      PyStr(Unique(UrlsOf(SelectSeq(AsItems(images),
                                                    IsImageString)))[i])]))

\* scraper.py 658-662, 718-722: if images: extracted['image_url'] = images
StateImages(images) == IF Falsy(images) THEN None ELSE Some(images)

\* isinstance(item, str), or isinstance(item, dict) and 'url' in item
CarriesUrl(item) ==
  item.type = "str" \/ (item.type = "dict" /\ item.url # None)

ItemUrl(item) == IF item.type = "str" THEN item.chars ELSE item.url[1]

\* data_processor.py _parse_image_urls
_parse_image_urls(image_data) ==
  IF image_data = None THEN << >>
  ELSE CASE image_data[1].type = "list" ->
              [i \in DOMAIN SelectSeq(image_data[1].items, CarriesUrl) |->
                 ItemUrl(SelectSeq(image_data[1].items, CarriesUrl)[i])]
         [] image_data[1].type = "str" ->
              IF image_data[1].chars = << >> THEN << >>
              ELSE <<image_data[1].chars>>
         [] OTHER -> << >>

InitImage ==
  /\ img_pc = "page"
  /\ img_images \in ImageValues
  /\ img_origin \in {"json_ld", "state"}
  /\ img_raw = None
  /\ img_result = << >>
  /\ ImageFrameOff

\* The scraper sets image_url from the JSON-LD script or from the state
ScrapeImages ==
  /\ img_pc = "page"
  /\ img_raw' = IF img_origin = "json_ld"
                THEN _extract_image_info(img_images)
                ELSE StateImages(img_images)
  /\ img_pc' = "scraped"
  /\ UNCHANGED <<img_images, img_origin, img_result>>
  /\ UNCHANGED image_frame

\* _create_listing_model: _parse_image_urls(raw_data.get('image_url'))
ParseImageUrls ==
  /\ img_pc = "scraped"
  /\ img_result' = _parse_image_urls(img_raw)
  /\ img_pc' = "processed"
  /\ UNCHANGED <<img_images, img_origin, img_raw>>
  /\ UNCHANGED image_frame

NextImage ==
  \/ ScrapeImages
  \/ ParseImageUrls

SpecImage == InitImage /\ [][NextImage]_vars

NoDuplicates(urls) ==
  \A i, j \in DOMAIN urls : urls[i] = urls[j] => i = j

\* C22: the image_url of a processed listing holds each URL at most once,
\* in order of first occurrence, and only URLs with an image-file extension:
\* it is the list of the URLs handed to parse_image_urls (strings and
\* {url: ...} objects), filtered and with duplicates removed.
C22_UniqueImageUrls ==
  img_pc = "processed" =>
    /\ NoDuplicates(img_result)
    /\ \A i \in DOMAIN img_result : HasImageExtension(img_result[i])
    /\ img_result =
         Unique(SelectSeq(_parse_image_urls(img_raw), HasImageExtension))

(***************************************************************************)
(* data_processor.py: process_listings_batch                               *)
(***************************************************************************)
MaxRaw == 2

RawPrices ==
  {PyNone, PyInt(0), PyInt(-MaxAbs), PyInt(PagePrice \div CentsPerEuro),
   PyStr(<<"0">>)}
RawEstimates ==
  {PyNone, PyStr(<<"0">>), PyInt(PageEstimate \div CentsPerEuro)}
RawMileages == {PyNone, PyInt(0), PyInt(PrefMileageMax)}

\* raw_data.get(k) is None for a key that is absent and for a None value
RawField(k, value) ==
  IF value = PyNone THEN EmptyDict ELSE Entry(k, Some(value))

RawListing(id, numbers) ==
  Update(Update(Update(Update(Entry("id", Some(id)), Entry("url", Some(id))),
                       RawField("price", numbers.price)),
                RawField("estimated_price", numbers.estimated_price)),
         RawField("mileage", numbers.mileage))

RawNumbers ==
  [price : RawPrices, estimated_price : RawEstimates, mileage : RawMileages,
   raises : BOOLEAN]

\* The batches: listing i has id i
RawBatches ==
  {[i \in DOMAIN choice |-> [raw |-> RawListing(i, choice[i]),
                             raises |-> choice[i].raises]] :
     choice \in UNION {[1 .. n -> RawNumbers] : n \in 0 .. MaxRaw}}

InitBatch ==
  /\ pb_pc = "loop"
  /\ raw_listings \in RawBatches
  /\ pb_i = 0
  /\ processed_listings = << >>
  /\ BatchFrameOff

\* One iteration: the four steps, then append; an exception of a step is
\* logged and the loop continues
ProcessIteration ==
  /\ pb_pc = "loop"
  /\ pb_i < Len(raw_listings)
  /\ pb_i' = pb_i + 1
  /\ processed_listings' =
       IF raw_listings[pb_i + 1].raises THEN processed_listings
       ELSE Append(processed_listings,
                   ProcessListing(raw_listings[pb_i + 1].raw))
  /\ UNCHANGED <<pb_pc, raw_listings>>
  /\ UNCHANGED batch_frame

\* return processed_listings
ProcessReturn ==
  /\ pb_pc = "loop"
  /\ pb_i = Len(raw_listings)
  /\ pb_pc' = "returned"
  /\ UNCHANGED <<raw_listings, pb_i, processed_listings>>
  /\ UNCHANGED batch_frame

NextBatch ==
  \/ ProcessIteration
  \/ ProcessReturn

SpecBatch == InitBatch /\ [][NextBatch]_vars

NullOrPositive(x) == x = None \/ x[1] > 0

\* The raw listing a record came from
RawOf(record) == raw_listings[record.id[1]].raw

\* No positive estimated price was extracted
NoEstimate(raw) ==
  \/ _parse_numeric(PyGet(raw, "estimated_price")) = None
  \/ _parse_numeric(PyGet(raw, "estimated_price"))[1] <= 0

\* The ids of the listings no step raised on, among the first n, in order
RECURSIVE Survivors(_)
Survivors(n) ==
  IF n = 0 THEN << >>
  ELSE IF raw_listings[n].raises THEN Survivors(n - 1)
  ELSE Append(Survivors(n - 1), n)

\* C23: every record process_listings_batch returns has price, estimated
\* price and mileage null or strictly positive, and its estimated price
\* equal to its price when no positive estimate was extracted and the price
\* is not null; a listing that fails is dropped, the others are all there,
\* in input order.
C23_ProcessedListings ==
  /\ \A k \in DOMAIN processed_listings :
       /\ NullOrPositive(processed_listings[k].price)
       /\ NullOrPositive(processed_listings[k].estimated_price)
       /\ NullOrPositive(processed_listings[k].mileage)
       /\ (NoEstimate(RawOf(processed_listings[k]))
             /\ processed_listings[k].price # None) =>
            processed_listings[k].estimated_price = processed_listings[k].price
  /\ [k \in DOMAIN processed_listings |-> processed_listings[k].id[1]] =
       Survivors(pb_i)

\* C23 witness: the first listing failed and was dropped; the second, whose
\* estimate "0" parsed to zero, came out with the estimate set to its price
C23_Witness ==
  /\ pb_pc = "returned"
  /\ Len(raw_listings) = 2
  /\ raw_listings[1].raises
  /\ PyGet(raw_listings[2].raw, "estimated_price") = PyStr(<<"0">>)
  /\ Len(processed_listings) = 1
  /\ processed_listings[1].price = Some(PagePrice \div CentsPerEuro)
  /\ processed_listings[1].estimated_price = processed_listings[1].price

(***************************************************************************)
(* SpecMaintain: runs of the orchestrator over the stored listings         *)
(*                                                                         *)
(* A run (main.py run) makes the linked sweep, then the unlinked sweep,    *)
(* then scrapes and inserts.  The listings of CheckIds are stored already: *)
(* insert_listings_batch inserts rows and updates none, so what a scrape   *)
(* run can do to them is to hand one that the fallback skipped to the      *)
(* linking (db.py:135-137).  Hours pass between two runs.                  *)
(***************************************************************************)
\* Runs in a behaviour, and waits between them
MaxRuns == 2
MaxWaits == 1

\* The hours of a wait: less, and more, than the interval of the linked sweep
WaitHours == {1, linked_check_interval + 1}

\* What the steps of the runs leave alone
maintain_rest ==
  <<scraper_vars, link_local, insert_vars, chk_pc, check_type, chk_listings,
    chk_k, existence_changes, price_changes, errors, chk_failed, chk_probed,
    chk_selected, chk_last, chk_returned, chk_sweeps, recheck_vars, run_vars,
    normalize_vars, parse_vars, image_vars, batch_vars>>
MaintainRestOff ==
  /\ ScraperOff /\ LinkLocalOff /\ InsertOff
  /\ chk_pc = "off" /\ check_type = "" /\ chk_listings = << >> /\ chk_k = 0
  /\ existence_changes = 0 /\ price_changes = 0 /\ errors = 0
  /\ chk_failed = 0 /\ chk_probed = << >> /\ chk_selected = None
  /\ chk_last = None /\ chk_returned = None /\ chk_sweeps = 0
  /\ RecheckOff /\ RunOff /\ NormalizeOff /\ ParseOff /\ ImageOff /\ BatchOff

\* A call that writes updated_at of the listing has succeeded: the update of
\* _handle_listing_deleted (235-238), of _handle_price_change (275-279) or
\* of _update_last_checked (292-294)
Recorded(kind, handler, touch) ==
  IF kind = "deleted" THEN handler # "listing_error"
  ELSE IF kind = "price"
  THEN touch = "ok" \/ handler \in {"ok", "notify_error"}
  ELSE touch = "ok"

InitMaintain ==
  /\ listing_rows \in CheckTables
  /\ user_listings \in CheckLinkTables
  /\ notifications = << >>
  /\ now = StartTime
  /\ mt_pc = "idle"
  /\ mt_listings = << >>
  /\ mt_k = 0
  /\ mt_checked = << >>
  /\ mt_runs = 0
  /\ MaintainRestOff

\* Hours pass between two runs
MaintainWait ==
  /\ mt_pc = "idle"
  /\ now < StartTime + MaxWaits
  /\ \E hours \in WaitHours : now' = now + hours
  /\ UNCHANGED <<listing_rows, user_listings, notifications, maintain_vars>>
  /\ UNCHANGED maintain_rest

\* main.py run, _run_maintenance_checks up to the loop of the linked sweep.
\* When the query raises, the exception leaves _run_maintenance_checks,
\* which catches it: no sweep is made in this run.
MaintainLinked ==
  /\ mt_pc = "idle"
  /\ mt_runs < MaxRuns
  /\ mt_runs' = mt_runs + 1
  /\ mt_checked' = << >>
  /\ \E outcome \in {"ok", "links_error", "query_error"} :
       \E listings \in _get_listings_to_check(listing_rows, user_listings,
                                              TRUE, linked_check_interval,
                                              now, outcome) :
         IF outcome = "query_error"
            /\ _get_linked_listing_ids(user_listings, outcome) # {}
         THEN mt_pc' = "scrape" /\ mt_listings' = << >> /\ mt_k' = 0
         ELSE mt_pc' = "linked" /\ mt_listings' = listings /\ mt_k' = 1
  /\ UNCHANGED <<listing_rows, user_listings, notifications, now>>
  /\ UNCHANGED maintain_rest

\* One iteration of "for listing in batch", in either sweep
MaintainCheck ==
  /\ mt_pc \in {"linked", "unlinked"}
  /\ mt_k <= Len(mt_listings)
  /\ \E probe \in {"exists", "absent", "error"}, fetched \in Fetches,
        touch \in {"ok", "error"},
        handler \in HandlerOutcomes("deleted") \cup HandlerOutcomes("price") :
       LET item == mt_listings[mt_k]
           checked == CheckOne(Database(listing_rows, user_listings,
                                        notifications),
                               item, probe, fetched, handler, touch, now)
       IN  /\ handler \in HandlerOutcomes(checked.kind)
           /\ probe # "exists" => fetched = [ok |-> TRUE, price |-> None]
           /\ checked.kind = "deleted" => touch = "ok"
           /\ listing_rows' = checked.db.rows
           /\ user_listings' = checked.db.links
           /\ notifications' = checked.db.notes
           /\ mt_checked' =
                Append(mt_checked,
                       [id |-> item.id, sweep |-> mt_pc,
                        existed |-> listing_rows[item.id].exists,
                        kind |-> checked.kind,
                        recorded |-> Recorded(checked.kind, handler, touch)])
  /\ mt_k' = mt_k + 1
  /\ UNCHANGED <<now, mt_pc, mt_listings, mt_runs>>
  /\ UNCHANGED maintain_rest

\* The linked sweep has returned: check_unlinked_listings makes its selection
MaintainUnlinked ==
  /\ mt_pc = "linked"
  /\ mt_k > Len(mt_listings)
  /\ \E outcome \in {"ok", "query_error"} :
       \E listings \in _get_listings_to_check(listing_rows, user_listings,
                                              FALSE, unlinked_check_interval,
                                              now, outcome) :
         IF outcome = "query_error"
         THEN mt_pc' = "scrape" /\ mt_listings' = << >> /\ mt_k' = 0
         ELSE mt_pc' = "unlinked" /\ mt_listings' = listings /\ mt_k' = 1
  /\ UNCHANGED <<listing_rows, user_listings, notifications, now, mt_checked,
                 mt_runs>>
  /\ UNCHANGED maintain_rest

\* The unlinked sweep has returned: _run_maintenance_checks sends its report
MaintainReport ==
  /\ mt_pc = "unlinked"
  /\ mt_k > Len(mt_listings)
  /\ mt_pc' = "scrape"
  /\ UNCHANGED <<listing_rows, user_listings, notifications, now, mt_listings,
                 mt_k, mt_checked, mt_runs>>
  /\ UNCHANGED maintain_rest

\* Steps 2 to 4 of run.  A stored listing that is scraped again is skipped
\* by the fallback of insert_listings_batch (db.py:109-112), its row staying
\* as it is, and may be handed to the linking with a user it suits.
MaintainScrape ==
  /\ mt_pc = "scrape"
  /\ mt_pc' = "idle"
  /\ \E id \in CheckIds, user_id \in Range(LinkUserIds), handed \in BOOLEAN :
       user_listings' =
         IF handed
         THEN _create_user_listing_link(user_listings, user_id, id,
                                        "ok").table
         ELSE user_listings
  /\ UNCHANGED <<listing_rows, notifications, now, mt_listings, mt_k,
                 mt_checked, mt_runs>>
  /\ UNCHANGED maintain_rest

NextMaintain ==
  \/ MaintainWait
  \/ MaintainLinked
  \/ MaintainCheck
  \/ MaintainUnlinked
  \/ MaintainReport
  \/ MaintainScrape

SpecMaintain == InitMaintain /\ [][NextMaintain]_vars

(***************************************************************************)
(* Claims about the runs over the stored listings, under SpecMaintain      *)
(***************************************************************************)
\* The listing_deleted notifications of a user for a listing
DeletionNotes(user_id, listing_id) ==
  {k \in 1 .. Len(notifications) :
     notifications[k] = Notification(user_id, "listing_deleted", listing_id,
                                     None, None)}

\* No step takes exists of a listing from false back to true
ExistsNeverRestored ==
  \A id \in CheckIds :
    ~listing_rows[id].exists => ~listing_rows'[id].exists

\* C25: deleted is a terminal state: over any sequence of maintenance and
\* scrape runs no step changes exists of a listing from false back to true,
\* a listing with exists = false is never probed or price-checked again, and
\* so no (user, listing) pair ever has more than one listing_deleted
\* notification.
C25_DeletedIsTerminal ==
  /\ [][ExistsNeverRestored]_vars
  /\ [](\A k \in 1 .. Len(mt_checked) : mt_checked[k].existed)
  /\ [](\A user_id \in Range(LinkUserIds), id \in CheckIds :
          Cardinality(DeletionNotes(user_id, id)) <= 1)

\* A listing was deleted and its user notified; hours later it is old enough
\* for the linked sweep and still linked, and the sweep of the next run has
\* checked another listing and left it alone
C25_Witness ==
  \E id \in CheckIds :
    /\ ~listing_rows[id].exists
    /\ \E user_id \in Range(LinkUserIds) : DeletionNotes(user_id, id) # {}
    /\ OlderThan(listing_rows[id].updated_at, now - linked_check_interval)
    /\ id \in _get_linked_listing_ids(user_listings, "ok")
    /\ mt_runs = 2
    /\ mt_pc = "scrape"
    /\ mt_checked # << >>
    /\ \A k \in 1 .. Len(mt_checked) : mt_checked[k].id # id

\* C26: within one maintenance run each listing is checked at most once: the
\* linked sweep is over before the unlinked selection is made, and a listing
\* it has checked is not selected by the unlinked sweep, provided a call
\* that records the check (writing updated_at or exists) has succeeded.
C26_CheckedOncePerRun ==
  \A a, b \in 1 .. Len(mt_checked) :
    a < b =>
      /\ mt_checked[a].sweep = "unlinked" => mt_checked[b].sweep = "unlinked"
      /\ (mt_checked[a].id = mt_checked[b].id) => ~mt_checked[a].recorded

\* A linked listing old enough for either sweep was checked by the linked
\* sweep, and the unlinked sweep of the same run has checked another listing
C26_Witness ==
  /\ Len(mt_checked) = 2
  /\ mt_pc = "scrape"
  /\ mt_checked[1].sweep = "linked"
  /\ mt_checked[1].recorded
  /\ mt_checked[1].kind = "active"
  /\ mt_checked[2].sweep = "unlinked"
  /\ mt_checked[2].id # mt_checked[1].id
  /\ \E k \in 1 .. Len(user_listings) :
       user_listings[k].listing_id = mt_checked[1].id


\* The price_history of a listing keeps its entries: a step appends or
\* leaves it alone
HistoryKept ==
  \A id \in CheckIds :
    /\ Len(listing_rows'[id].price_history)
         >= Len(listing_rows[id].price_history)
    /\ SubSeq(listing_rows'[id].price_history, 1,
              Len(listing_rows[id].price_history))
         = listing_rows[id].price_history

\* The entries of a price_history are changes, each starting from the price
\* the one before has ended with, the last ending with the stored price
Chained(price_history, price) ==
  /\ \A k \in 1 .. Len(price_history) :
       price_history[k].old_price # price_history[k].new_price
  /\ \A k \in 2 .. Len(price_history) :
       price_history[k].old_price = price_history[k - 1].new_price
  /\ price_history # << >> =>
       price_history[Len(price_history)].new_price = price

\* C27: price_history is an append-only chained log: over any sequence of
\* re-checks of a listing no entry is modified or removed, every entry has
\* an old_price different from its new_price, the old_price of an entry is
\* the new_price of the entry before it, and the new_price of the last
\* entry is the stored price.
C27_PriceHistoryChain ==
  /\ [][HistoryKept]_vars
  /\ [](\A id \in CheckIds :
          Chained(listing_rows[id].price_history, listing_rows[id].price))

\* The price of a listing has changed in one run and changed back in the
\* next
C27_Witness ==
  \E id \in CheckIds :
    /\ Len(listing_rows[id].price_history) = 2
    /\ listing_rows[id].price = Some(StoredPrice)
    /\ listing_rows[id].price_history[1].new_price = Some(OtherPrice)


(***************************************************************************)
(* Further claims about a check, under SpecCheck                           *)
(***************************************************************************)
\* The last check has left the price data of its listing alone
PriceDataUntouched ==
  /\ listing_rows[chk_last[1].id].price = chk_last[1].row.price
  /\ listing_rows[chk_last[1].id].price_history
       = chk_last[1].row.price_history
  /\ \A k \in 1 .. Len(AddedNotes) : AddedNotes[k].type # "price_changed"

\* The last check has made the deleted transition, or a part of it
DeletionDone ==
  \/ listing_rows[chk_last[1].id].exists # chk_last[1].row.exists
  \/ user_listings # chk_last[1].links
  \/ \E k \in 1 .. Len(AddedNotes) : AddedNotes[k].type = "listing_deleted"

\* C28: a check that detects no price change leaves the price data alone:
\* when the listing is found deleted, when the price fetch fails or gives
\* no price (null or 0), or when the extracted price is the stored one, the
\* stored price and price_history stay as they were and no price_changed
\* notification is created; and no check makes both the deleted and the
\* price-changed transition.
C28_NoPriceChangeNoEffect ==
  chk_last # None =>
    /\ (\/ chk_last[1].kind = "deleted"
        \/ ~TruthyN(chk_last[1].current_price)
        \/ chk_last[1].current_price = chk_last[1].row.price)
         => PriceDataUntouched
    /\ PriceDataUntouched \/ ~DeletionDone

\* The page of a listing with a linked user was fetched and gave the price 0
C28_Witness ==
  /\ chk_last # None
  /\ chk_last[1].kind = "active"
  /\ chk_last[1].current_price = Some(0)
  /\ LinkedUsers # {}
  /\ chk_last[1].row.price = Some(StoredPrice)


\* The links of the listing of the last check, as they are now
LinksOfLast == LinksOf(user_listings, chk_last[1].id)

\* The listings of the selection whose exists the sweep has set to false
SetToFalse ==
  {id \in CheckIds :
     chk_selected[1].rows[id].exists /\ ~listing_rows[id].exists}

\* C29: the deletion transition is all-or-nothing, also when one of its
\* calls of the database fails: after a check that found its listing
\* absent, either exists is still true, no link was trashed and no deletion
\* notification was created, or exists is false, every link of the listing
\* is trashed and each linked user has its deletion notification; and
\* existence_changes of the batch is the number of listings whose exists
\* the batch has set to false.
C29_DeletionAllOrNothing ==
  /\ (chk_last # None /\ chk_last[1].kind = "deleted") =>
       \/ /\ listing_rows[chk_last[1].id].exists
          /\ user_listings = chk_last[1].links
          /\ AddedNotes = << >>
       \/ /\ ~listing_rows[chk_last[1].id].exists
          /\ \A k \in 1 .. Len(LinksOfLast) :
               LinksOfLast[k].status = "corbeille"
          /\ OnePerLinkedUser("listing_deleted", None, None)
  /\ (chk_selected # None /\ chk_pc = "sweep") =>
       existence_changes = Cardinality(SetToFalse)


(***************************************************************************)
(* A further claim about the collection phase, under Spec                  *)
(***************************************************************************)
\* C30: the candidate list handed to the detail phase holds no URL of the
\* known-URL set and holds every URL at most once, also when a URL is on
\* two index pages, so that a listing is scraped at most once in a run.
C30_CandidatesDeduplicated ==
  /\ Range(all_urls) \cap existing_urls = {}
  /\ \A url \in Range(all_urls) : Count(all_urls, url) = 1
  /\ \A url \in Range(detail_calls) : Count(detail_calls, url) = 1

=============================================================================
